---- MODULE Spec2Model ----
(***************************************************************************)
(* MacSyFinder detection core: the clusterizer, the promotion pass, the    *)
(* matcher and the Cluster / System objects of macsypy.                    *)
(*                                                                         *)
(* Three specifications share the variables below:                         *)
(*   Spec      build_clusters (_clusterize, set_multi_system_hit,          *)
(*             _get_true_loners) followed by match on one combination;     *)
(*   SpecMatch match on hand-built clusters, then System.score;            *)
(*   SpecObj   the life of Cluster objects (construction, merge) and the   *)
(*             construction of a System from them.                         *)
(***************************************************************************)
EXTENDS Integers, Sequences, FiniteSets, TLC

VARIABLES
    pc,                            \* position of the run
    topology,                      \* rep_info.topology
    min_genes_required,            \* model.min_genes_required
    min_mandatory_genes_required,  \* model.min_mandatory_genes_required
    hits,                          \* the hit list handed to build_clusters
    clusters,                      \* list of Cluster (records with field hits)
    true_clusters,                 \* the clusters _get_true_loners keeps in the list
    true_loners,                   \* list of [func, cluster]: dict of _get_true_loners
    multi_system_hits,             \* list of [func, cluster]: dict of set_multi_system_hit
    combination,                   \* the clusters handed to match
    result,                        \* what match returned
    score,                         \* what System.score returned (thousandths), -1 before
    error,                         \* the exception raised, "" when none
    weights,                       \* the HitWeight of the run (thousandths)
    system_id,                     \* System._id: the numbers handed out so far
    systems,                       \* the System objects built so far
    sel_systems,                   \* the systems handed to BestSystemSelector (ranks in systems)
    selector,                      \* BestSystemSelector.systems once the object is built
    best_systems,                  \* what BestSystemSelector.best_system returned
    _idx                           \* the sequence index read by RepliconDB: (seq_id, length, rank)

vars == <<pc, topology, min_genes_required, min_mandatory_genes_required, hits,
          clusters, true_clusters, true_loners, multi_system_hits, combination, result, score, error,
          weights, system_id, systems, sel_systems, selector,
                   best_systems, _idx>>

----------------------------------------------------------------------------
(* Bounds of the model *)

\* number of hits handed to build_clusters
MaxHits == 3

\* last position (sequence rank) of the replicon; the first is RepMin
RepMax == 6

RepMin == 1

\* None of a gene's inter_gene_max_space
NoSpace == -1

Positions == RepMin..RepMax

Scores == {1, 2}

Topologies == {"linear", "circular"}

----------------------------------------------------------------------------
(* The model under detection: its genes and their flags. *)

\* model._mandatory_genes, model._accessory_genes, ... (lists of gene names)
mandatory_genes == <<"gspD", "sctN">>

accessory_genes == <<"sctJ", "tadZ">>

neutral_genes == <<"flgB">>

forbidden_genes == <<"sctC">>

\* homologs / analogs declared on a gene: alternate name -> gene it stands for
Alternates == [gspDh |-> "gspD", sctJh |-> "sctJ", flgBh |-> "flgB", sctCh |-> "sctC",
               tadZh |-> "tadZ"]

\* genes flagged exchangeable
ExchangeableGenes == {"gspD", "flgB", "sctC", "tadZ"}

\* genes flagged loner
LonerGenes == {"sctJ", "tadZ"}

\* genes flagged multi_system
MultiSystemGenes == {"sctN", "tadZ"}

\* model.fqn of the model under detection
ModelName == "T2SS"

\* model.inter_gene_max_space
ModelInterGeneMaxSpace == 1

\* gene.inter_gene_max_space, NoSpace when the gene has none of its own
GeneInterGeneMaxSpace(g) == IF g = "sctN" THEN 0 ELSE IF g = "tadZ" THEN 2 ELSE NoSpace

\* gene.alternate_of().name: the gene an alternate stands for, else the gene
alternate_of(g) == IF g \in DOMAIN Alternates THEN Alternates[g] ELSE g

\* gene.is_exchangeable: the gene is an alternate of another gene
is_exchangeable(g) == g \in DOMAIN Alternates

\* gene.loner
loner(g) == g \in LonerGenes

\* gene.multi_system
multi_system(g) == g \in MultiSystemGenes

SeqToSet(s) == {s[i] : i \in DOMAIN s}

Min(a, b) == IF a <= b THEN a ELSE b

----------------------------------------------------------------------------
(* _collocates *)

inter_gene_max_space_largest(h1, h2) ==
    LET d1 == GeneInterGeneMaxSpace(h1.gene)
        d2 == GeneInterGeneMaxSpace(h2.gene)
    IN  IF d1 = NoSpace /\ d2 = NoSpace THEN ModelInterGeneMaxSpace
        ELSE IF d1 >= d2 THEN d1 ELSE d2

\* the inter_gene_max_space _collocates works out for two hits
inter_gene_max_space(h1, h2) ==
    LET d1 == GeneInterGeneMaxSpace(h1.gene)
        d2 == GeneInterGeneMaxSpace(h2.gene)
    IN  IF d1 = NoSpace /\ d2 = NoSpace THEN ModelInterGeneMaxSpace
        ELSE IF d1 = NoSpace THEN d2
        ELSE IF d2 = NoSpace THEN d1
        ELSE Min(d1, d2)

\* _collocates with the topology of the replicon left out of the second test
collocates_any_topology(h1, h2, topo) ==
    LET dist == h2.position - h1.position - 1
        D    == inter_gene_max_space(h1, h2)
    IN  IF 0 <= dist /\ dist <= D THEN TRUE
        ELSE IF dist <= 0
             THEN RepMax - h1.position + h2.position - RepMin <= D
        ELSE FALSE

collocates(h1, h2, topo) ==
    LET dist == h2.position - h1.position - 1
        D    == inter_gene_max_space(h1, h2)
    IN  IF 0 <= dist /\ dist <= D THEN TRUE
        ELSE IF dist <= 0 /\ topo = "circular"
             THEN RepMax - h1.position + h2.position - RepMin <= D
        ELSE FALSE

----------------------------------------------------------------------------
(* Cluster *)

\* Cluster._check_replicon_consistency
replicon_consistent(hs) == \A i \in DOMAIN hs : hs[i].replicon_name = hs[1].replicon_name

\* Cluster.__init__: the object built from a list of hits
Cluster(hs) == [hits |-> hs]

\* Cluster.merge
merge(self, cluster, before) ==
    IF before THEN [self EXCEPT !.hits = cluster.hits \o self.hits]
    ELSE [self EXCEPT !.hits = self.hits \o cluster.hits]

\* Cluster.loner
cluster_loner(c) == Len(c.hits) = 1 /\ loner(c.hits[1].gene)

----------------------------------------------------------------------------
(* _clusterize *)

\* the sort key without the score: (h.position)
KeyLessPositionOnly(a, b) == a.position < b.position

\* the sort key (h.position, - h.score): a sorts strictly before b
KeyLess(a, b) == a.position < b.position \/ (a.position = b.position /\ a.score > b.score)

RECURSIVE Insert(_, _)
Insert(sorted, h) ==
    IF sorted = <<>> THEN <<h>>
    ELSE IF KeyLess(h, Head(sorted)) THEN <<h>> \o sorted
    ELSE <<Head(sorted)>> \o Insert(Tail(sorted), h)

\* hits.sort(key=...): a stable sort
RECURSIVE SortHits(_)
SortHits(hs) ==
    IF hs = <<>> THEN <<>>
    ELSE Insert(SortHits(SubSeq(hs, 1, Len(hs) - 1)), hs[Len(hs)])

\* [next(group) for pos, group in groupby(hits, position)]
RECURSIVE GroupFirst(_, _)
GroupFirst(hs, i) ==
    IF i > Len(hs) THEN <<>>
    ELSE IF i = 1 \/ hs[i - 1].position # hs[i].position
         THEN <<hs[i]>> \o GroupFirst(hs, i + 1)
    ELSE GroupFirst(hs, i + 1)

\* the closing of a scaffold without the branch of the loner genes
CloseScaffoldNoLoner(clstrs, scaffold, mgr) ==
    IF Len(scaffold) > 1 THEN Append(clstrs, Cluster(scaffold))
    ELSE IF mgr = 1 THEN Append(clstrs, Cluster(scaffold))
    ELSE clstrs

\* the scaffold met a break: close it or drop it
CloseScaffold(clstrs, scaffold, mgr) ==
    IF Len(scaffold) > 1 THEN Append(clstrs, Cluster(scaffold))
    ELSE IF mgr = 1 THEN Append(clstrs, Cluster(scaffold))
    ELSE IF loner(scaffold[1].gene) THEN Append(clstrs, Cluster(scaffold))
    ELSE clstrs

\* the loop over hits[1:]
RECURSIVE Sweep(_, _, _, _, _, _)
Sweep(hs, i, scaffold, clstrs, topo, mgr) ==
    IF i > Len(hs) THEN [clusters |-> clstrs, scaffold |-> scaffold]
    ELSE IF collocates(hs[i - 1], hs[i], topo)
         THEN Sweep(hs, i + 1, Append(scaffold, hs[i]), clstrs, topo, mgr)
    ELSE Sweep(hs, i + 1, <<hs[i]>>, CloseScaffold(clstrs, scaffold, mgr), topo, mgr)

\* the closing of the last scaffold without the test of the first cluster
CloseLastNoWrap(clstrs, scaffold, topo, mgr) ==
    IF Len(scaffold) > 1 THEN Append(clstrs, Cluster(scaffold))
    ELSE IF loner(scaffold[1].gene) THEN Append(clstrs, Cluster(scaffold))
    ELSE IF mgr = 1 THEN Append(clstrs, Cluster(scaffold))
    ELSE clstrs

\* close the last current cluster
CloseLast(clstrs, scaffold, topo, mgr) ==
    IF Len(scaffold) > 1 THEN Append(clstrs, Cluster(scaffold))
    ELSE IF clstrs # <<>> /\ collocates(scaffold[1], clstrs[1].hits[1], topo)
         THEN [clstrs EXCEPT ![1] = merge(clstrs[1], Cluster(scaffold), TRUE)]
    ELSE IF loner(scaffold[1].gene) THEN Append(clstrs, Cluster(scaffold))
    ELSE IF mgr = 1 THEN Append(clstrs, Cluster(scaffold))
    ELSE clstrs

\* the circular merge that leaves the last cluster in the list
StitchKeepLast(clstrs, topo) ==
    IF Len(clstrs) > 1
       /\ collocates(clstrs[Len(clstrs)].hits[Len(clstrs[Len(clstrs)].hits)],
                     clstrs[1].hits[1], topo)
    THEN [clstrs EXCEPT ![1] = merge(clstrs[1], clstrs[Len(clstrs)], TRUE)]
    ELSE clstrs

\* handle circularity: the last cluster may go in front of the first
Stitch(clstrs, topo) ==
    IF Len(clstrs) > 1
       /\ collocates(clstrs[Len(clstrs)].hits[Len(clstrs[Len(clstrs)].hits)],
                     clstrs[1].hits[1], topo)
    THEN SubSeq([clstrs EXCEPT ![1] = merge(clstrs[1], clstrs[Len(clstrs)], TRUE)],
                1, Len(clstrs) - 1)
    ELSE clstrs

clusterize(hs, topo, mgr) ==
    LET uniq == GroupFirst(SortHits(hs), 1)
    IN  IF uniq = <<>> THEN <<>>
        ELSE LET swept == Sweep(uniq, 2, <<uniq[1]>>, <<>>, topo, mgr)
             IN  Stitch(CloseLast(swept.clusters, swept.scaffold, topo, mgr), topo)

----------------------------------------------------------------------------
(* Hits *)

InSeq(x, s) == \E i \in DOMAIN s : s[i] = x

\* the GeneStatus of a gene in the model: that of the gene it stands for
gene_status(g) ==
    LET ref == alternate_of(g)
    IN  IF InSeq(ref, mandatory_genes) THEN "mandatory"
        ELSE IF InSeq(ref, accessory_genes) THEN "accessory"
        ELSE IF InSeq(ref, neutral_genes) THEN "neutral"
        ELSE IF InSeq(ref, forbidden_genes) THEN "forbidden"
        ELSE "none"

\* a ModelHit of gene g: hit number i of the hit list, on replicon rep
ModelHit(i, pos, g, sc, rep) ==
    [id |-> i, position |-> pos, gene |-> g, score |-> sc, replicon_name |-> rep,
     type |-> "ModelHit", gene_ref |-> g, status |-> gene_status(g), counterpart |-> <<>>]

\* the value of a variable that holds no hit yet
NoHit == ModelHit(0, 0, "", 0, "")

\* ValidHit(hit, gene_ref, status)
ValidHit(hit, g_ref, st) ==
    [hit EXCEPT !.type = "ValidHit", !.gene_ref = g_ref, !.status = st]

\* Loner(hit, counterpart=...)
Loner(hit, cpart) == [hit EXCEPT !.type = "Loner", !.counterpart = cpart]

\* LonerMultiSystem(hit)
LonerMultiSystem(hit) == [hit EXCEPT !.type = "LonerMultiSystem"]

\* hit.multi_system
hit_multi_system(h) == multi_system(alternate_of(h.gene_ref))

\* get_best_hit_4_func(func_name, hits, key='score'): the first hit with the best score
RECURSIVE get_best_hit_4_func(_)
get_best_hit_4_func(hs) ==
    IF Len(hs) = 1 THEN hs[1]
    ELSE LET best == get_best_hit_4_func(Tail(hs))
         IN  IF hs[1].score >= best.score THEN hs[1] ELSE best

\* the hits of a list of clusters, cluster after cluster
RECURSIVE Flatten(_)
Flatten(clstrs) ==
    IF clstrs = <<>> THEN <<>> ELSE clstrs[1].hits \o Flatten(Tail(clstrs))

----------------------------------------------------------------------------
(* set_multi_system_hit *)

\* the keys of ms_registry after the first loop
ms_registry_keys(clstrs) ==
    {alternate_of(h.gene_ref) : h \in {x \in SeqToSet(Flatten(clstrs)) :
                                          multi_system(alternate_of(x.gene_ref))}}

\* "for func_name in ms_registry.items(): ms = ms_registry[func_name]" looks the
\* registry up with a (key, value) pair: the first turn of the loop raises
set_multi_system_hit(clstrs) ==
    IF clstrs # <<>> /\ ms_registry_keys(clstrs) # {}
    THEN [error |-> "TypeError", clusters |-> clstrs, ms_registry |-> <<>>]
    ELSE [error |-> "", clusters |-> clstrs, ms_registry |-> <<>>]

----------------------------------------------------------------------------
(* _get_true_loners *)

\* the first loop keeping in true_clusters the clusters it puts in the pools
true_clusters_keep_loners(clstrs) == clstrs

\* true_clusters after the first loop
true_clusters_of(clstrs) == SelectSeq(clstrs, LAMBDA c : ~ cluster_loner(c))

\* the keys of true_loners in insertion order
RECURSIVE loner_funcs(_, _)
loner_funcs(clstrs, seen) ==
    IF clstrs = <<>> THEN <<>>
    ELSE LET c == clstrs[1]
             f == alternate_of(c.hits[1].gene_ref)
         IN  IF cluster_loner(c) /\ f \notin seen
             THEN <<f>> \o loner_funcs(Tail(clstrs), seen \cup {f})
             ELSE loner_funcs(Tail(clstrs), seen)

\* the pools of the first loop with every loner put in every pool
loner_pool_any_key(clstrs, f) ==
    LET cs == SelectSeq(clstrs, LAMBDA c : cluster_loner(c))
    IN  [i \in 1..Len(cs) |-> cs[i].hits[1]]

\* true_loners[func_name] after the first loop
loner_pool(clstrs, f) ==
    LET cs == SelectSeq(clstrs, LAMBDA c : cluster_loner(c)
                                           /\ alternate_of(c.hits[1].gene_ref) = f)
    IN  [i \in 1..Len(cs) |-> cs[i].hits[1]]

\* loners without its i-th hit: counterpart after counterpart.pop(i)
WithoutNth(s, i) == SubSeq(s, 1, i - 1) \o SubSeq(s, i + 1, Len(s))

\* the second loop over one pool. stale is the value the variable hit holds when the
\* pool is entered (NoHit before any pool has popped a hit)
pool_to_loners(pool, stale) ==
    IF hit_multi_system(pool[1])
    THEN IF stale = NoHit
         THEN [error |-> "UnboundLocalError", loners |-> <<>>, hit |-> stale]
         ELSE [error |-> "", loners |-> [i \in 1..Len(pool) |-> LonerMultiSystem(stale)],
               hit |-> stale]
    ELSE [error |-> "",
          loners |-> [i \in 1..Len(pool) |-> Loner(pool[i], WithoutNth(pool, i))],
          hit |-> pool[Len(pool)]]

RECURSIVE convert_pools(_, _, _)
convert_pools(clstrs, funcs, stale) ==
    IF funcs = <<>> THEN [error |-> "", true_loners |-> <<>>]
    ELSE LET conv == pool_to_loners(loner_pool(clstrs, funcs[1]), stale)
         IN  IF conv.error # "" THEN [error |-> conv.error, true_loners |-> <<>>]
             ELSE LET rest == convert_pools(clstrs, Tail(funcs), conv.hit)
                      best == get_best_hit_4_func(conv.loners)
                  IN  [error |-> rest.error,
                       true_loners |-> <<[func |-> funcs[1], cluster |-> Cluster(<<best>>)]>>
                                       \o rest.true_loners]

get_true_loners(clstrs) ==
    LET conv == convert_pools(clstrs, loner_funcs(clstrs, {}), NoHit)
    IN  [error |-> conv.error, true_loners |-> conv.true_loners,
         true_clusters |-> true_clusters_of(clstrs)]

----------------------------------------------------------------------------
(* match *)

\* create_exchangeable_map(genes): the alternates of the exchangeable genes of a role
create_exchangeable_map(genes) ==
    {a \in DOMAIN Alternates : InSeq(Alternates[a], genes) /\ Alternates[a] \in ExchangeableGenes}

\* the if / elif chain on gene_name: the role the hit counts for and the gene it
\* counts under; role "none" when no branch takes the hit
resolve(gene_name) ==
    IF InSeq(gene_name, mandatory_genes)
        THEN [role |-> "mandatory", gene_ref |-> gene_name]
    ELSE IF gene_name \in create_exchangeable_map(mandatory_genes)
        THEN [role |-> "mandatory", gene_ref |-> Alternates[gene_name]]
    ELSE IF InSeq(gene_name, accessory_genes)
        THEN [role |-> "accessory", gene_ref |-> gene_name]
    ELSE IF gene_name \in create_exchangeable_map(accessory_genes)
        THEN [role |-> "accessory", gene_ref |-> Alternates[gene_name]]
    ELSE IF InSeq(gene_name, neutral_genes)
        THEN [role |-> "neutral", gene_ref |-> gene_name]
    ELSE IF gene_name \in create_exchangeable_map(neutral_genes)
        THEN [role |-> "neutral", gene_ref |-> Alternates[gene_name]]
    ELSE IF InSeq(gene_name, forbidden_genes)
        THEN [role |-> "forbidden", gene_ref |-> gene_name]
    ELSE IF gene_name \in create_exchangeable_map(forbidden_genes)
        THEN [role |-> "forbidden", gene_ref |-> Alternates[gene_name]]
    ELSE [role |-> "none", gene_ref |-> gene_name]

\* <role>_counter[g] once every hit is counted
RECURSIVE counter(_, _, _)
counter(hs, role, g) ==
    IF hs = <<>> THEN 0
    ELSE LET r == resolve(hs[1].gene)
         IN  (IF r.role = role /\ r.gene_ref = g THEN 1 ELSE 0) + counter(Tail(hs), role, g)

\* [g for g, occ in <role>_counter.items() if occ > 0]
genes_present(hs, role, genes) == SelectSeq(genes, LAMBDA g : counter(hs, role, g) > 0)

\* valid_hits of one cluster with the neutral hits left out
RECURSIVE valid_hits_without_neutral(_)
valid_hits_without_neutral(hs) ==
    IF hs = <<>> THEN <<>>
    ELSE LET r == resolve(hs[1].gene)
         IN  IF r.role \in {"mandatory", "accessory"}
             THEN <<ValidHit(hs[1], r.gene_ref, r.role)>> \o valid_hits_without_neutral(Tail(hs))
             ELSE valid_hits_without_neutral(Tail(hs))

\* valid_hits of one cluster
RECURSIVE valid_hits(_)
valid_hits(hs) ==
    IF hs = <<>> THEN <<>>
    ELSE LET r == resolve(hs[1].gene)
         IN  IF r.role \in {"mandatory", "accessory", "neutral"}
             THEN <<ValidHit(hs[1], r.gene_ref, r.role)>> \o valid_hits(Tail(hs))
             ELSE valid_hits(Tail(hs))

\* valid_clusters: one Cluster per input cluster that keeps a valid hit
RECURSIVE valid_clusters(_)
valid_clusters(clstrs) ==
    IF clstrs = <<>> THEN <<>>
    ELSE LET vh == valid_hits(clstrs[1].hits)
         IN  IF vh # <<>> THEN <<Cluster(vh)>> \o valid_clusters(Tail(clstrs))
             ELSE valid_clusters(Tail(clstrs))

\* forbidden_hits
forbidden_hits(hs) == SelectSeq(hs, LAMBDA h : resolve(h.gene).role = "forbidden")

\* the test of the mandatory quorum with <= in place of <
mandatory_rule_off_by_one(nb_mandatory, min_mandatory) == nb_mandatory <= min_mandatory

\* the forbidden message counting the forbidden genes in place of their hits
forbidden_msg_distinct(f_hits) ==
    [rule |-> "forbidden", required |-> 0,
     observed |-> Cardinality({f_hits[i].gene : i \in DOMAIN f_hits}),
     genes |-> [i \in 1..Len(f_hits) |-> f_hits[i].gene]]

\* the three tests on the counts; each failing one appends its message to reasons
forbidden_rule(forb_genes) == forb_genes # <<>>

mandatory_rule(nb_mandatory, min_mandatory) == nb_mandatory < min_mandatory

genes_rule(nb_mandatory, nb_accessory, min_genes) == nb_accessory + nb_mandatory < min_genes

\* the messages, field by field
forbidden_msg(f_hits) ==
    [rule |-> "forbidden", required |-> 0, observed |-> Len(f_hits),
     genes |-> [i \in 1..Len(f_hits) |-> f_hits[i].gene]]

mandatory_msg(nb_mandatory, min_mandatory) ==
    [rule |-> "mandatory", required |-> min_mandatory, observed |-> nb_mandatory, genes |-> <<>>]

genes_msg(nb_mandatory, nb_accessory, min_genes) ==
    [rule |-> "genes", required |-> min_genes, observed |-> nb_accessory + nb_mandatory,
     genes |-> <<>>]

\* System.__init__ and RejectedClusters.__init__
\* System.__init__: the id is made of the replicon, the name of the model and next(_id)
SystemOfModel(fqn, clstrs) ==
    [kind |-> "System", clusters |-> clstrs, replicon_name |-> clstrs[1].hits[1].replicon_name,
     reason |-> <<>>, model |-> fqn,
     id |-> <<clstrs[1].hits[1].replicon_name, fqn, system_id + 1>>]

\* System(model, clusters) for the model under detection
System(clstrs) == SystemOfModel(ModelName, clstrs)

RejectedClusters(clstrs, reason) ==
    [kind |-> "RejectedClusters", clusters |-> clstrs, replicon_name |-> "", reason |-> reason]

NoResult == [kind |-> "none", clusters |-> <<>>, replicon_name |-> "", reason |-> <<>>]

match(clstrs, min_mandatory, min_genes) ==
    LET hs      == Flatten(clstrs)
        mand    == genes_present(hs, "mandatory", mandatory_genes)
        acc     == genes_present(hs, "accessory", accessory_genes)
        forb    == genes_present(hs, "forbidden", forbidden_genes)
        f_hits  == forbidden_hits(hs)
        reasons == (IF forbidden_rule(forb) THEN <<forbidden_msg(f_hits)>> ELSE <<>>)
                   \o (IF mandatory_rule(Len(mand), min_mandatory)
                       THEN <<mandatory_msg(Len(mand), min_mandatory)>> ELSE <<>>)
                   \o (IF genes_rule(Len(mand), Len(acc), min_genes)
                       THEN <<genes_msg(Len(mand), Len(acc), min_genes)>> ELSE <<>>)
        is_a_system == ~ forbidden_rule(forb)
                       /\ ~ mandatory_rule(Len(mand), min_mandatory)
                       /\ ~ genes_rule(Len(mand), Len(acc), min_genes)
    IN  IF is_a_system
        THEN IF valid_clusters(clstrs) = <<>>
             THEN [NoResult EXCEPT !.kind = "IndexError"]   \* clusters[0] of an empty list
             ELSE System(valid_clusters(clstrs))
        ELSE RejectedClusters(clstrs, reasons)

----------------------------------------------------------------------------
(* Cluster.score, Cluster.fulfilled_function and System.score; scores are counted
   in thousandths *)

\* the hit weights of the run: mandatory 1, accessory 0.5, neutral 0, itself 1,
\* exchangeable 0.8, loner_multi_system 0.7
hit_weights == [mandatory |-> 1000, accessory |-> 500, neutral |-> 0, itself |-> 1000,
                exchangeable |-> 800, loner_multi_system |-> 700]

\* the redundancy penalty of System.score: 1.5
ClusterPenalty == 1500

\* the score of one hit with the weights exchangeable and itself taken one for the other
hit_score_swapped(v_hit) ==
    LET base == IF v_hit.status = "mandatory" THEN weights.mandatory
                ELSE IF v_hit.status = "accessory" THEN weights.accessory
                ELSE IF v_hit.status = "neutral" THEN weights.neutral
                ELSE -1
        mult == IF is_exchangeable(v_hit.gene_ref) THEN weights.itself
                ELSE weights.exchangeable
        lms  == IF loner(alternate_of(v_hit.gene_ref)) /\ hit_multi_system(v_hit)
                THEN weights.loner_multi_system ELSE 1000
    IN  IF base = -1 THEN -1 ELSE (base * mult * lms) \div 1000000

\* the score of one hit inside Cluster.score; -1 for the MacsypyError of a hit that
\* is neither mandatory, accessory nor neutral
hit_score(v_hit) ==
    LET base == IF v_hit.status = "mandatory" THEN weights.mandatory
                ELSE IF v_hit.status = "accessory" THEN weights.accessory
                ELSE IF v_hit.status = "neutral" THEN weights.neutral
                ELSE -1
        mult == IF is_exchangeable(v_hit.gene_ref) THEN weights.exchangeable
                ELSE weights.itself
        lms  == IF loner(alternate_of(v_hit.gene_ref)) /\ hit_multi_system(v_hit)
                THEN weights.loner_multi_system ELSE 1000
    IN  IF base = -1 THEN -1 ELSE (base * mult * lms) \div 1000000

\* seen_hits keeping the score of the last hit of a function in place of the best
RECURSIVE seen_hits_last(_, _)
seen_hits_last(hs, seen) ==
    IF hs = <<>> THEN seen
    ELSE LET funct == alternate_of(hs[1].gene_ref)
             sc    == hit_score(hs[1])
         IN  IF funct \in DOMAIN seen
             THEN seen_hits_last(Tail(hs), [seen EXCEPT ![funct] = sc])
             ELSE seen_hits_last(Tail(hs), seen @@ (funct :> sc))

\* seen_hits after the loop over the hits: function name -> best hit score
RECURSIVE seen_hits(_, _)
seen_hits(hs, seen) ==
    IF hs = <<>> THEN seen
    ELSE LET funct == alternate_of(hs[1].gene_ref)
             sc    == hit_score(hs[1])
         IN  IF funct \in DOMAIN seen
             THEN IF sc > seen[funct]
                  THEN seen_hits(Tail(hs), [seen EXCEPT ![funct] = sc])
                  ELSE seen_hits(Tail(hs), seen)
             ELSE seen_hits(Tail(hs), seen @@ (funct :> sc))

RECURSIVE SumOver(_, _)
SumOver(f, keys) ==
    IF keys = {} THEN 0
    ELSE LET k == CHOOSE x \in keys : TRUE IN f[k] + SumOver(f, keys \ {k})

\* Cluster.score computed from the hits of the cluster
cluster_score(c) ==
    LET seen == seen_hits(c.hits, <<>>) IN SumOver(seen, DOMAIN seen)

\* Cluster.fulfilled_function(gene)
fulfilled_function(c, g) == g \in {alternate_of(c.hits[i].gene_ref) : i \in DOMAIN c.hits}

\* sum([1 for clst in self.clusters if clst.fulfilled_function(gene)])
clst_having_hit(clstrs, g) == Cardinality({i \in DOMAIN clstrs : fulfilled_function(clstrs[i], g)})

\* the penalty charged for the neutral genes too
penalized_genes_with_neutral == mandatory_genes \o accessory_genes \o neutral_genes

\* the genes System.score charges the penalty for
penalized_genes == mandatory_genes \o accessory_genes

\* the penalty charged once for a gene, however many clusters fulfill it
RECURSIVE penalties_once(_, _)
penalties_once(clstrs, genes) ==
    IF genes = <<>> THEN 0
    ELSE LET n == clst_having_hit(clstrs, genes[1])
         IN  (IF n > 1 THEN ClusterPenalty ELSE 0) + penalties_once(clstrs, Tail(genes))

\* the loop over the genes: the penalties taken off the score
RECURSIVE penalties(_, _)
penalties(clstrs, genes) ==
    IF genes = <<>> THEN 0
    ELSE LET n == clst_having_hit(clstrs, genes[1])
         IN  (IF n # 0 THEN (n - 1) * ClusterPenalty ELSE 0) + penalties(clstrs, Tail(genes))

RECURSIVE sum_cluster_scores(_)
sum_cluster_scores(clstrs) ==
    IF clstrs = <<>> THEN 0 ELSE cluster_score(clstrs[1]) + sum_cluster_scores(Tail(clstrs))

\* System.score
system_score(sys) == sum_cluster_scores(sys.clusters) - penalties(sys.clusters, penalized_genes)

----------------------------------------------------------------------------
(* Spec: build_clusters on one replicon, then match on one combination *)

\* the genes the hits of the replicon are drawn from
HitGenes == {"gspD", "sctJ", "sctN"}

\* the clusters the combinations are drawn from
available(t_clusters, t_loners, ms_hits) ==
    t_clusters \o [i \in 1..Len(t_loners) |-> t_loners[i].cluster]
               \o [i \in 1..Len(ms_hits) |-> ms_hits[i].cluster]

\* itertools.combinations: the clusters at the chosen ranks, in their order
RECURSIVE combination_of(_, _, _)
combination_of(clstrs, ranks, i) ==
    IF i > Len(clstrs) THEN <<>>
    ELSE (IF i \in ranks THEN <<clstrs[i]>> ELSE <<>>) \o combination_of(clstrs, ranks, i + 1)

Init ==
    /\ pc = "input"
    /\ topology = "linear"
    /\ min_genes_required = 1
    /\ min_mandatory_genes_required = 1
    /\ hits = <<>>
    /\ clusters = <<>>
    /\ true_clusters = <<>>
    /\ true_loners = <<>>
    /\ multi_system_hits = <<>>
    /\ combination = <<>>
    /\ result = NoResult
    /\ score = -1
    /\ error = ""
    /\ weights = hit_weights
    /\ system_id = 0
    /\ systems = <<>>
    /\ sel_systems = <<>>
    /\ selector = <<>>
    /\ best_systems = <<>>
    /\ _idx = <<>>

\* the similarity search reports one more hit of the replicon
AddHit ==
    /\ pc = "input"
    /\ Len(hits) < MaxHits
    /\ \E pos \in Positions, g \in HitGenes, sc \in Scores :
          hits' = Append(hits, ModelHit(Len(hits) + 1, pos, g, sc, "R1"))
    /\ UNCHANGED <<weights, system_id, systems, sel_systems, selector,
                   best_systems>>
    /\ UNCHANGED <<pc, topology, min_genes_required, min_mandatory_genes_required, clusters,
                   true_clusters, true_loners, multi_system_hits, combination, result, score,
                   error>>
    /\ UNCHANGED _idx

\* build_clusters(hits, rep_info, model, hit_weights)
BuildClusters ==
    /\ pc = "input"
    /\ \E topo \in Topologies, mgr \in {1, 2} :
          LET clstrs == clusterize(hits, topo, mgr)
              ms     == set_multi_system_hit(clstrs)
              tl     == get_true_loners(ms.clusters)
          IN  /\ topology' = topo
              /\ min_genes_required' = mgr
              /\ clusters' = clstrs
              /\ IF hits = <<>>
                 THEN /\ pc' = "built"
                      /\ error' = ""
                      /\ true_clusters' = <<>>
                      /\ true_loners' = <<>>
                      /\ multi_system_hits' = <<>>
                 ELSE IF ms.error # ""
                 THEN /\ pc' = "failed"
                      /\ error' = ms.error
                      /\ UNCHANGED <<true_clusters, true_loners, multi_system_hits>>
                 ELSE IF tl.error # ""
                 THEN /\ pc' = "failed"
                      /\ error' = tl.error
                      /\ UNCHANGED <<true_clusters, true_loners, multi_system_hits>>
                 ELSE /\ pc' = "built"
                      /\ error' = ""
                      /\ true_clusters' = tl.true_clusters
                      /\ true_loners' = tl.true_loners
                      /\ multi_system_hits' = ms.ms_registry
    /\ UNCHANGED <<weights, system_id, systems, sel_systems, selector,
                   best_systems>>
    /\ UNCHANGED <<min_mandatory_genes_required, hits, combination, result, score>>
    /\ UNCHANGED _idx

\* match(clusters, model) on one combination of the clusters of build_clusters
Match ==
    /\ pc = "built"
    /\ LET avail == available(true_clusters, true_loners, multi_system_hits)
       IN  \E ranks \in SUBSET (1..Len(avail)) \ {{}} :
              /\ combination' = combination_of(avail, ranks, 1)
              /\ result' = match(combination', min_mandatory_genes_required, min_genes_required)
    /\ pc' = "matched"
    /\ system_id' = IF result'.kind = "System" THEN system_id + 1 ELSE system_id
    /\ UNCHANGED <<weights, systems, sel_systems, selector,
                   best_systems>>
    /\ UNCHANGED <<topology, min_genes_required, min_mandatory_genes_required, hits, clusters,
                   true_clusters, true_loners, multi_system_hits, score, error>>
    /\ UNCHANGED _idx

Next == AddHit \/ BuildClusters \/ Match

Spec == Init /\ [][Next]_vars

----------------------------------------------------------------------------
(* Properties of _clusterize, stated on the run of Spec *)

\* build_clusters has run (it returned or it raised): clusters holds what
\* _clusterize returned
Clustered == pc \in {"built", "failed", "matched"}

\* the hits left after the sort and the removal of duplicates
Uniq == GroupFirst(SortHits(hits), 1)

Ids(hs) == {hs[i].id : i \in DOMAIN hs}

StrictlyIncreasing(hs) == \A i \in 1..(Len(hs) - 1) : hs[i].position < hs[i + 1].position

\* the places where the next hit has a position lower than or equal to the hit before it
Descents(hs) == {i \in 1..(Len(hs) - 1) : hs[i].position >= hs[i + 1].position}

\* a strictly increasing list cut in two with the upper part put first
RotatedIncreasing(hs) ==
    \/ StrictlyIncreasing(hs)
    \/ /\ Cardinality(Descents(hs)) = 1
       /\ hs[Len(hs)].position < hs[1].position

\* C4, as stated: every cluster returned by _clusterize, on a linear or a circular
\* replicon, has its hits sorted by strictly increasing position.
C4_AsStated ==
    Clustered => \A i \in DOMAIN clusters : StrictlyIncreasing(clusters[i].hits)

\* C4, amended: no cluster returned by _clusterize holds two hits with the same
\* position; on a linear replicon its hits are sorted by strictly increasing position,
\* on a circular replicon they are a strictly increasing list that may start after
\* the origin was crossed (the hits merged in front come first).
C4_PositionOrder ==
    Clustered =>
        \A i \in DOMAIN clusters :
            LET hs == clusters[i].hits
            IN  /\ \A a, b \in DOMAIN hs : a # b => hs[a].position # hs[b].position
                /\ topology = "linear" => StrictlyIncreasing(hs)
                /\ topology = "circular" => RotatedIncreasing(hs)

\* C4 witness: a cluster of three hits of a circular replicon is returned that
\* starts before the origin and goes on after it.
C4_Witness ==
    /\ Clustered
    /\ topology = "circular"
    /\ \E i \in DOMAIN clusters :
          /\ Len(clusters[i].hits) = 3
          /\ Descents(clusters[i].hits) # {}

\* the positions of all hits moved by k around the circle
Rotate(hs, k) ==
    [i \in DOMAIN hs |->
        [hs[i] EXCEPT !.position = ((hs[i].position - RepMin + k) % (RepMax - RepMin + 1)) + RepMin]]

\* the sets of hits grouped together
Groups(clstrs) == {Ids(clstrs[i].hits) : i \in DOMAIN clstrs}

\* C6: on a circular replicon, rotating the positions of all hits by any constant
\* yields the same groups of hits from _clusterize.
C6_RotationSymmetry ==
    (Clustered /\ topology = "circular") =>
        \A k \in 1..(RepMax - RepMin) :
            Groups(clusterize(Rotate(hits, k), topology, min_genes_required)) = Groups(clusters)

\* C7: on a circular replicon, two hits that are the only hits and colocalize only
\* across the origin come back as one cluster, the hit of high position first.
C7_WrapPair ==
    (/\ Clustered
     /\ topology = "circular"
     /\ Len(Uniq) = 2
     /\ ~ collocates(Uniq[1], Uniq[2], "linear")
     /\ collocates(Uniq[2], Uniq[1], "circular"))
    => clusters = <<Cluster(<<Uniq[2], Uniq[1]>>)>>

\* the hits of the hit list at position p
HitsAt(p) == {i \in DOMAIN hits : hits[i].position = p}

\* C8: _clusterize keeps at most one hit per position, one with the best score of
\* the hits at that position, and no returned cluster holds two hits of one position.
C8_OneHitPerPosition ==
    Clustered =>
        LET out == Flatten(clusters)
        IN  /\ \A a, b \in DOMAIN out : a # b => out[a].position # out[b].position
            /\ \A a \in DOMAIN out :
                  /\ out[a].id \in HitsAt(out[a].position)
                  /\ \A j \in HitsAt(out[a].position) : hits[j].score <= out[a].score

\* C8 witness: two hits of different scores share a position and the cluster
\* returned holds the one with the higher score, which came later in the list.
C8_Witness ==
    /\ Clustered
    /\ \E i, j \in DOMAIN hits :
          /\ i < j
          /\ hits[i].position = hits[j].position
          /\ hits[i].score < hits[j].score
          /\ \E c \in DOMAIN clusters : hits[j].id \in Ids(clusters[c].hits)

\* the ranks (in Uniq) where a scaffold starts: the first hit and every hit that
\* does not colocalize with the hit before it
Breaks == {i \in 2..Len(Uniq) : ~ collocates(Uniq[i - 1], Uniq[i], topology)}

\* the scaffolds ended by a break, as pairs <<first rank, last rank>>
BrokenScaffolds ==
    {<<a, b - 1>> : a \in {1} \cup Breaks, b \in Breaks} \cap
    {r \in (1..MaxHits + 1) \X (1..MaxHits + 1) :
        r[1] <= r[2] /\ \A m \in Breaks : ~ (r[1] < m /\ m <= r[2])}

\* the rule of C9 for the scaffold of ranks a..b
MayClose(a, b) == \/ b - a + 1 >= 2
                  \/ min_genes_required = 1
                  \/ loner(Uniq[a].gene)

\* C9: a scaffold ended by a break becomes a cluster if and only if it has two hits or
\* more, or min_genes_required is 1, or its hit is of a loner gene; otherwise its hit
\* is in no cluster. When no two neighbours colocalize, no hit is of a loner gene and
\* min_genes_required is at least 2, no cluster is returned.
C9_CloseOnBreak ==
    Clustered =>
        /\ \A r \in BrokenScaffolds :
              LET ids == {Uniq[m].id : m \in r[1]..r[2]}
              IN  IF MayClose(r[1], r[2])
                  THEN \E c \in DOMAIN clusters : ids \subseteq Ids(clusters[c].hits)
                  ELSE \A c \in DOMAIN clusters : ids \cap Ids(clusters[c].hits) = {}
        /\ (/\ Breaks = 2..Len(Uniq)
            /\ \A m \in DOMAIN Uniq : ~ loner(Uniq[m].gene)
            /\ min_genes_required >= 2) => clusters = <<>>

\* C9 witness: three lone hits, the first of a loner gene and kept, the second
\* dropped, with min_genes_required = 2.
C9_Witness ==
    /\ Clustered
    /\ min_genes_required = 2
    /\ Len(Uniq) = 3
    /\ Breaks = {2, 3}
    /\ loner(Uniq[1].gene)
    /\ ~ loner(Uniq[2].gene)
    /\ \E c \in DOMAIN clusters : Uniq[1].id \in Ids(clusters[c].hits)

----------------------------------------------------------------------------
(* SpecMatch: match on clusters built by hand, then System.score *)

\* number of hits in the clusters handed to match, all clusters together
MaxMatchHits == 3

\* the largest quorum tried
MaxQuorum == 3

\* the genes the hits are drawn from: model genes of each role, alternates, and a
\* gene the model does not know
MatchGenes == {"gspD", "gspDh", "sctN", "sctJ", "flgB", "sctC", "sctCh", "abc"}

\* hits numbered from first on, at the positions first, first + 1, ...
HitsOf(genes, first, rep) ==
    [i \in 1..Len(genes) |-> ModelHit(first + i - 1, first + i - 1, genes[i], 1, rep)]

GeneLists == UNION {[1..n -> MatchGenes] : n \in 1..MaxMatchHits}

InitMatch ==
    /\ pc = "m_input"
    /\ topology = "linear"
    /\ min_genes_required = 1
    /\ min_mandatory_genes_required = 1
    /\ hits = <<>>
    /\ clusters = <<>>
    /\ true_clusters = <<>>
    /\ true_loners = <<>>
    /\ multi_system_hits = <<>>
    /\ combination = <<>>
    /\ result = NoResult
    /\ score = -1
    /\ error = ""
    /\ weights = hit_weights
    /\ system_id = 0
    /\ systems = <<>>
    /\ sel_systems = <<>>
    /\ selector = <<>>
    /\ best_systems = <<>>
    /\ _idx = <<>>

\* the caller puts one more cluster in the combination
MNewCluster ==
    /\ pc = "m_input"
    /\ \E genes \in GeneLists :
          /\ Len(Flatten(combination)) + Len(genes) <= MaxMatchHits
          /\ combination' = Append(combination,
                                Cluster(HitsOf(genes, Len(Flatten(combination)) + 1, "R1")))
    /\ UNCHANGED <<weights, system_id, systems, sel_systems, selector,
                   best_systems>>
    /\ UNCHANGED <<pc, topology, min_genes_required, min_mandatory_genes_required, hits,
                   clusters, true_clusters, true_loners, multi_system_hits, result, score,
                   error>>
    /\ UNCHANGED _idx

\* match(clusters, model) for a model with the quorums min_mandatory and min_genes
MMatch ==
    /\ pc = "m_input"
    /\ combination # <<>>
    /\ \E min_mandatory \in 1..MaxQuorum, min_genes \in 1..MaxQuorum :
          /\ min_genes >= min_mandatory
          /\ min_mandatory_genes_required' = min_mandatory
          /\ min_genes_required' = min_genes
          /\ result' = match(combination, min_mandatory, min_genes)
    /\ pc' = "m_matched"
    /\ system_id' = IF result'.kind = "System" THEN system_id + 1 ELSE system_id
    /\ UNCHANGED <<weights, systems, sel_systems, selector,
                   best_systems>>
    /\ UNCHANGED <<topology, hits, clusters, true_clusters, true_loners, multi_system_hits,
                   combination, score, error>>
    /\ UNCHANGED _idx

\* System.score read on the System match returned
MScore ==
    /\ pc = "m_matched"
    /\ result.kind = "System"
    /\ score' = system_score(result)
    /\ pc' = "m_scored"
    /\ UNCHANGED <<weights, system_id, systems, sel_systems, selector,
                   best_systems>>
    /\ UNCHANGED <<topology, min_genes_required, min_mandatory_genes_required, hits, clusters,
                   true_clusters, true_loners, multi_system_hits, combination, result, error>>
    /\ UNCHANGED _idx

\* the hits of a cluster found once more further on the replicon
DuplicateOf(c) ==
    Cluster([i \in DOMAIN c.hits |->
                [c.hits[i] EXCEPT !.id = @ + MaxMatchHits, !.position = @ + MaxMatchHits]])

\* System(model, clusters + [duplicate]).score: the System of the same clusters and
\* of a duplicate of one of them is built and scored
MDuplicate ==
    /\ pc = "m_scored"
    /\ \E k \in DOMAIN result.clusters :
          result' = System(Append(result.clusters, DuplicateOf(result.clusters[k])))
    /\ score' = system_score(result')
    /\ pc' = "m_duplicated"
    /\ system_id' = IF result'.kind = "System" THEN system_id + 1 ELSE system_id
    /\ UNCHANGED <<weights, systems, sel_systems, selector,
                   best_systems>>
    /\ UNCHANGED <<topology, min_genes_required, min_mandatory_genes_required, hits, clusters,
                   true_clusters, true_loners, multi_system_hits, combination, error>>
    /\ UNCHANGED _idx

NextMatch == MNewCluster \/ MMatch \/ MScore \/ MDuplicate

SpecMatch == InitMatch /\ [][NextMatch]_vars

----------------------------------------------------------------------------
(* Properties of match and of System.score, stated on the run of SpecMatch *)

Matched == pc \in {"m_matched", "m_scored"}

\* a hit of gene g counts for the role whose genes are listed in genes: g is one of
\* them, or g is an alternate of one of them that is exchangeable
CountsFor(g, genes) ==
    \/ InSeq(g, genes)
    \/ /\ g \in DOMAIN Alternates
       /\ InSeq(Alternates[g], genes)
       /\ Alternates[g] \in ExchangeableGenes

\* the distinct genes of a role that have a hit in the combination
GenesHit(genes) ==
    {alternate_of(h.gene) : h \in {x \in SeqToSet(Flatten(combination)) : CountsFor(x.gene, genes)}}

NoForbiddenHit == GenesHit(forbidden_genes) = {}

MandatoryQuorum == Cardinality(GenesHit(mandatory_genes)) >= min_mandatory_genes_required

GenesQuorum ==
    Cardinality(GenesHit(mandatory_genes)) + Cardinality(GenesHit(accessory_genes))
        >= min_genes_required

ExpectedReason ==
    LET f_hits == SelectSeq(Flatten(combination), LAMBDA h : CountsFor(h.gene, forbidden_genes))
        nb_m   == Cardinality(GenesHit(mandatory_genes))
        nb_a   == Cardinality(GenesHit(accessory_genes))
    IN  (IF NoForbiddenHit THEN <<>>
         ELSE <<[rule |-> "forbidden", required |-> 0, observed |-> Len(f_hits),
                 genes |-> [i \in 1..Len(f_hits) |-> f_hits[i].gene]]>>)
        \o (IF MandatoryQuorum THEN <<>>
            ELSE <<[rule |-> "mandatory", required |-> min_mandatory_genes_required,
                    observed |-> nb_m, genes |-> <<>>]>>)
        \o (IF GenesQuorum THEN <<>>
            ELSE <<[rule |-> "genes", required |-> min_genes_required,
                    observed |-> nb_m + nb_a, genes |-> <<>>]>>)

\* C2: the reason of a RejectedClusters lists exactly the rules that failed, each
\* with its numbers: the forbidden rule with the number of forbidden hits and the
\* gene name of each, the quorums with the number required and the number observed.
C2_RejectedReason ==
    (Matched /\ result.kind = "RejectedClusters") =>
        /\ result.reason = ExpectedReason
        /\ result.reason # <<>>
        /\ result.clusters = combination

\* C2 witness: a rejection for the three rules at once, with two hits of forbidden
\* genes, one of them through an alternate.
C2_Witness ==
    /\ Matched
    /\ result.kind = "RejectedClusters"
    /\ Len(result.reason) = 3
    /\ result.reason[1].observed = 2
    /\ "sctCh" \in SeqToSet(result.reason[1].genes)

\* the clusters of the System that hold a hit standing for gene g
ClustersFulfilling(g) ==
    {i \in DOMAIN result.clusters :
        \E j \in DOMAIN result.clusters[i].hits :
            alternate_of(result.clusters[i].hits[j].gene_ref) = g}

\* C10: System.score is the sum of the scores of the clusters minus 1.5 for every
\* cluster beyond the first that fulfills the function of a mandatory or accessory
\* gene; neutral and forbidden genes cost nothing.
C10_SystemScore ==
    pc = "m_scored" =>
        LET genes     == SeqToSet(mandatory_genes) \cup SeqToSet(accessory_genes)
            fulfilled == {g \in genes : ClustersFulfilling(g) # {}}
            pairs     == {p \in genes \X DOMAIN result.clusters : p[2] \in ClustersFulfilling(p[1])}
        IN  score = sum_cluster_scores(result.clusters)
                    - 1500 * (Cardinality(pairs) - Cardinality(fulfilled))

\* C10 witness: a System of two clusters that both fulfill gspD, scored 1.5 under
\* the sum of its clusters.
C10_Witness ==
    /\ pc = "m_scored"
    /\ Cardinality(ClustersFulfilling("gspD")) = 2
    /\ score = sum_cluster_scores(result.clusters) - 1500

----------------------------------------------------------------------------
(* SpecObj: Cluster objects are built and merged, Systems are built from them *)

\* number of Cluster objects alive
MaxObjs == 2

\* number of hits of one Cluster object
MaxObjHits == 3

Replicons == {"R1", "R2"}

\* number of System objects built
MaxObjSystems == 2

\* the models of the run
Models == {"T2SS", "T3SS"}

InitObj ==
    /\ pc = "o_run"
    /\ topology = "linear"
    /\ min_genes_required = 1
    /\ min_mandatory_genes_required = 1
    /\ hits = <<>>
    /\ clusters = <<>>
    /\ true_clusters = <<>>
    /\ true_loners = <<>>
    /\ multi_system_hits = <<>>
    /\ combination = <<>>
    /\ result = NoResult
    /\ score = -1
    /\ error = ""
    /\ weights = hit_weights
    /\ system_id = 0
    /\ systems = <<>>
    /\ sel_systems = <<>>
    /\ selector = <<>>
    /\ best_systems = <<>>
    /\ _idx = <<>>

\* Cluster(hits, model, hit_weights): _check_replicon_consistency raises when the hits
\* come from two replicons, and no object is made
ONewCluster ==
    /\ pc = "o_run"
    /\ Len(clusters) < MaxObjs
    /\ \E n \in 1..2 : \E reps \in [1..n -> Replicons], genes \in [1..n -> {"gspD", "sctJ"}] :
          LET first == 2 * Len(clusters)
              hs    == [i \in 1..n |-> ModelHit(first + i, first + i, genes[i], 1, reps[i])]
          IN  IF replicon_consistent(hs)
              THEN clusters' = Append(clusters, Cluster(hs)) /\ error' = ""
              ELSE clusters' = clusters /\ error' = "MacsypyError"
    /\ UNCHANGED <<weights, system_id, systems, sel_systems, selector,
                   best_systems>>
    /\ UNCHANGED <<pc, topology, min_genes_required, min_mandatory_genes_required, hits,
                   true_clusters, true_loners, multi_system_hits, combination, result, score>>
    /\ UNCHANGED _idx

\* clusters[i].merge(clusters[j], before): both clusters are of the same model
OMerge ==
    /\ pc = "o_run"
    /\ \E i, j \in DOMAIN clusters, before \in BOOLEAN :
          /\ i # j
          /\ Len(clusters[i].hits) + Len(clusters[j].hits) <= MaxObjHits
          /\ clusters' = [clusters EXCEPT ![i] = merge(clusters[i], clusters[j], before)]
    /\ error' = ""
    /\ UNCHANGED <<weights, system_id, systems, sel_systems, selector,
                   best_systems>>
    /\ UNCHANGED <<pc, topology, min_genes_required, min_mandatory_genes_required, hits,
                   true_clusters, true_loners, multi_system_hits, combination, result, score>>
    /\ UNCHANGED _idx

\* System(model, clusters) on some of the clusters
ONewSystem ==
    /\ pc = "o_run"
    /\ Len(systems) < MaxObjSystems
    /\ \E ranks \in SUBSET (DOMAIN clusters) \ {{}}, fqn \in Models :
          /\ combination' = combination_of(clusters, ranks, 1)
          /\ result' = SystemOfModel(fqn, combination')
    /\ systems' = Append(systems, result')
    /\ system_id' = system_id + 1
    /\ error' = ""
    /\ UNCHANGED <<weights, sel_systems, selector,
                   best_systems>>
    /\ UNCHANGED <<pc, topology, min_genes_required, min_mandatory_genes_required, hits,
                   clusters, true_clusters, true_loners, multi_system_hits, score>>
    /\ UNCHANGED _idx

NextObj == ONewCluster \/ OMerge \/ ONewSystem

SpecObj == InitObj /\ [][NextObj]_vars

\* C5: all hits of a Cluster share one replicon_name and all clusters of a System
\* share one replicon_name, however the Cluster was obtained (built or merged).
C5_RepliconPurity ==
    /\ \A i \in DOMAIN clusters : replicon_consistent(clusters[i].hits)
    /\ result.kind = "System" => replicon_consistent(Flatten(result.clusters))

\* the Systems built before systems[i] for the same replicon and the same model
SameKeyBefore(i) ==
    {j \in 1..i : /\ systems[j].replicon_name = systems[i].replicon_name
                  /\ systems[j].model = systems[i].model}

\* C17: the number in the id of a System is a counter kept per replicon and model:
\* the k-th System built for a replicon and a model has the number k.
C17_IdPerRepliconAndModel ==
    \A i \in DOMAIN systems :
        systems[i].id = <<systems[i].replicon_name, systems[i].model,
                          Cardinality(SameKeyBefore(i))>>

----------------------------------------------------------------------------
(* SpecScore: Cluster.score of a cluster of any hits under any hit weights *)

\* number of hits of the cluster that is scored
MaxScoreHits == 3

\* the genes the hits of the scored cluster stand for
ScoreGenes == {"gspD", "gspDh", "sctJ", "tadZ", "tadZh", "flgB", "sctC"}

\* the hit weights a run may be configured with
WeightConfigs ==
    [mandatory : {1000, -1000}, accessory : {500}, neutral : {0}, itself : {1000},
     exchangeable : {800, 1200}, loner_multi_system : {700, -700}]

InitScore ==
    /\ pc = "input"
    /\ topology = "linear"
    /\ min_genes_required = 1
    /\ min_mandatory_genes_required = 1
    /\ hits = <<>>
    /\ clusters = <<>>
    /\ true_clusters = <<>>
    /\ true_loners = <<>>
    /\ multi_system_hits = <<>>
    /\ combination = <<>>
    /\ result = NoResult
    /\ score = -1
    /\ error = ""
    /\ weights \in WeightConfigs
    /\ system_id = 0
    /\ systems = <<>>
    /\ sel_systems = <<>>
    /\ selector = <<>>
    /\ best_systems = <<>>
    /\ _idx = <<>>

\* one more hit for the cluster
SAddHit ==
    /\ pc = "input"
    /\ Len(hits) < MaxScoreHits
    /\ \E g \in ScoreGenes :
          hits' = Append(hits, ModelHit(Len(hits) + 1, Len(hits) + 1, g, 1, "R1"))
    /\ UNCHANGED <<pc, topology, min_genes_required, min_mandatory_genes_required, clusters,
                   true_clusters, true_loners, multi_system_hits, combination, result, score,
                   error, weights, system_id, systems, sel_systems, selector,
                   best_systems>>
    /\ UNCHANGED _idx

\* Cluster(hits, model, hit_weights).score: MacsypyError when a hit is neither
\* mandatory, accessory nor neutral
SScore ==
    /\ pc = "input"
    /\ hits # <<>>
    /\ clusters' = <<Cluster(hits)>>
    /\ IF \E i \in DOMAIN hits : hit_score(hits[i]) = -1
       THEN /\ pc' = "failed"
            /\ error' = "MacsypyError"
            /\ UNCHANGED score
       ELSE /\ pc' = "scored"
            /\ score' = cluster_score(Cluster(hits))
            /\ UNCHANGED error
    /\ UNCHANGED <<topology, min_genes_required, min_mandatory_genes_required, hits,
                   true_clusters, true_loners, multi_system_hits, combination, result,
                   weights, system_id, systems, sel_systems, selector,
                   best_systems>>
    /\ UNCHANGED _idx

\* the alternates declared for a gene
AlternatesOf(g) == {a \in DOMAIN Alternates : Alternates[a] = g}

\* the same cluster with a direct hit replaced by a hit of an alternate of its gene:
\* Cluster(hits, model, hit_weights).score on the new hit list
SReplace ==
    /\ pc = "scored"
    /\ \E i \in DOMAIN hits :
          \E a \in AlternatesOf(hits[i].gene_ref) :
             hits' = [hits EXCEPT ![i] = ModelHit(hits[i].id, hits[i].position, a,
                                                  hits[i].score, hits[i].replicon_name)]
    /\ clusters' = <<Cluster(hits')>>
    /\ score' = cluster_score(Cluster(hits'))
    /\ pc' = "replaced"
    /\ UNCHANGED <<topology, min_genes_required, min_mandatory_genes_required,
                   true_clusters, true_loners, multi_system_hits, combination, result,
                   error, weights, system_id, systems, sel_systems, selector,
                   best_systems>>
    /\ UNCHANGED _idx

NextScore == SAddHit \/ SScore \/ SReplace

SpecScore == InitScore /\ [][NextScore]_vars

\* the weight of the status of a hit
StatusWeight(h) ==
    IF h.status = "mandatory" THEN weights.mandatory
    ELSE IF h.status = "accessory" THEN weights.accessory
    ELSE weights.neutral

\* the score the hit weights give to one hit, in thousandths
ExpectedHitScore(h) ==
    (StatusWeight(h)
       * (IF h.gene_ref \in DOMAIN Alternates THEN weights.exchangeable ELSE weights.itself)
       * (IF alternate_of(h.gene_ref) \in LonerGenes \cap MultiSystemGenes
          THEN weights.loner_multi_system ELSE 1000)) \div 1000000

\* the functional keys of the hits
FunctionalKeys(hs) == {alternate_of(hs[i].gene_ref) : i \in DOMAIN hs}

\* the best of the expected scores of the hits of one functional key
BestOfKey(hs, k) ==
    LET scs == {ExpectedHitScore(hs[i]) : i \in {j \in DOMAIN hs : alternate_of(hs[j].gene_ref) = k}}
    IN  CHOOSE m \in scs : \A x \in scs : x <= m

RECURSIVE SumOfBest(_, _)
SumOfBest(hs, keys) ==
    IF keys = {} THEN 0
    ELSE LET k == CHOOSE x \in keys : TRUE
         IN  BestOfKey(hs, k) + SumOfBest(hs, keys \ {k})

\* C11: Cluster.score is the sum, over the functional keys of the hits, of the best
\* hit score of the key, a hit score being the weight of the status times the
\* exchangeable or itself weight times the loner_multi_system weight when it applies.
C11_ClusterScore ==
    pc = "scored" => score = SumOfBest(hits, FunctionalKeys(hits))

\* C11 witness: a scored cluster holds a direct hit and an alternate hit of one
\* function with different hit scores, and a hit that is loner and multi-system.
C11_Witness ==
    /\ pc = "scored"
    /\ \E i, j \in DOMAIN hits :
          /\ hits[i].gene_ref = "gspD" /\ hits[j].gene_ref = "gspDh"
          /\ ExpectedHitScore(hits[i]) # ExpectedHitScore(hits[j])
    /\ \E i \in DOMAIN hits : hits[i].gene_ref = "tadZ"
    /\ score # 0

\* C13, as stated: when weight.exchangeable < weight.itself, replacing a direct hit
\* by an alternate hit of the same function and status never increases Cluster.score,
\* whatever the other hit weights.
C13_AsStated ==
    [][(pc = "scored" /\ pc' = "replaced" /\ weights.exchangeable < weights.itself)
        => score' <= score]_vars

\* no status weight and no loner_multi_system weight is negative
NonNegativeWeights ==
    /\ weights.mandatory >= 0
    /\ weights.accessory >= 0
    /\ weights.neutral >= 0
    /\ weights.loner_multi_system >= 0

\* C13, amended: when weight.exchangeable < weight.itself and neither a status weight
\* nor the loner_multi_system weight is negative, replacing a direct hit by an
\* alternate hit of the same function and status never increases Cluster.score.
C13_ExchangeableMonotone ==
    [][(pc = "scored" /\ pc' = "replaced" /\ weights.exchangeable < weights.itself
        /\ NonNegativeWeights)
        => score' <= score]_vars

\* C13 witness: under weights that are not negative and with exchangeable < itself,
\* the only hit of gspD was replaced by a hit of its alternate and the score of the
\* cluster went down.
C13_Witness ==
    /\ pc = "replaced"
    /\ weights.exchangeable < weights.itself
    /\ NonNegativeWeights
    /\ Cardinality({i \in DOMAIN hits : alternate_of(hits[i].gene_ref) = "gspD"}) = 1
    /\ \E i \in DOMAIN hits : hits[i].gene_ref = "gspDh"
    /\ score = SumOfBest(hits, FunctionalKeys(hits))
    /\ \E i \in DOMAIN hits : ExpectedHitScore(hits[i]) = 800

----------------------------------------------------------------------------
(* System.score when a duplicate cluster is added, stated on the run of SpecMatch *)

\* the cluster MDuplicate has just added
AddedCluster == result.clusters[Len(result.clusters)]

\* the functions of the added cluster that belong to a mandatory or accessory gene
PenalizedKeys(c) ==
    FunctionalKeys(c.hits) \cap (SeqToSet(mandatory_genes) \cup SeqToSet(accessory_genes))

\* C12, as stated: adding a duplicate cluster decreases System.score by exactly 1.5
\* times the number of functions the duplicate fulfills.
C12_AsStated ==
    [][(pc = "m_scored" /\ pc' = "m_duplicated")
        => score' = score - 1500 * Cardinality(FunctionalKeys(AddedCluster'.hits))]_vars

\* C12, amended: adding a duplicate cluster changes System.score by the score of the
\* added cluster minus 1.5 for each of its functions that belongs to a mandatory or
\* accessory gene.
C12_DuplicatePenalty ==
    [][(pc = "m_scored" /\ pc' = "m_duplicated")
        => score' = score + SumOfBest(AddedCluster'.hits, FunctionalKeys(AddedCluster'.hits))
                          - 1500 * Cardinality(PenalizedKeys(AddedCluster'))]_vars

\* C12 witness: a duplicate of a cluster that fulfills a mandatory, an accessory and
\* a neutral function was added to a System and the System was scored again.
C12_Witness ==
    /\ pc = "m_duplicated"
    /\ FunctionalKeys(AddedCluster.hits) = {"gspD", "sctJ", "flgB"}
    /\ score = 1500 + 1500 - 3000

----------------------------------------------------------------------------
(* SpecSelect: Systems of several models share hits; a BestSystemSelector is  *)
(* built on some of them and best_system is called.                           *)

\* number of Systems of the run
MaxSelSystems == 3

\* the genes of the CoreHits of the replicon: CoreHit i is a hit of PoolGenes[i]
PoolGenes == <<"gspD", "gspD", "flgB">>

\* the valid hits made of the CoreHits ids, in the order of the replicon
RECURSIVE PoolHits(_, _)
PoolHits(ids, i) ==
    IF i > Len(PoolGenes) THEN <<>>
    ELSE (IF i \in ids
          THEN <<ValidHit(ModelHit(i, i, PoolGenes[i], 1, "R1"), PoolGenes[i],
                          gene_status(PoolGenes[i]))>>
          ELSE <<>>) \o PoolHits(ids, i + 1)

\* System.hits of the System at rank r of systems
system_hits(all, r) == Flatten(all[r].clusters)

\* HitSystemTracker(systems)[hit]: the Systems that hold the CoreHit
hit_tracker(all, hit) ==
    {r \in DOMAIN all : \E k \in DOMAIN system_hits(all, r) : system_hits(all, r)[k].id = hit}

\* ComposedScore._overlap: used_in_systems[vh], the Systems of other models that hold
\* the hit
used_in_systems(all, r, vh) == {o \in hit_tracker(all, vh.id) : all[o].model # all[r].model}

\* ComposedScore.overlapping_genes: len(used_in_systems), one key per hit of the System
overlapping_genes(all, r) ==
    Cardinality({system_hits(all, r)[k].id : k \in DOMAIN system_hits(all, r)})

RECURSIVE SumLengths(_, _, _)
SumLengths(all, r, hs) ==
    IF hs = <<>> THEN 0
    ELSE Cardinality(used_in_systems(all, r, hs[1])) + SumLengths(all, r, Tail(hs))

\* ComposedScore.overlapping_length
overlapping_length(all, r) == SumLengths(all, r, system_hits(all, r))

\* the items whose key is k, in their order
RECURSIVE WithKey(_, _, _)
WithKey(items, keys, k) ==
    IF items = <<>> THEN <<>>
    ELSE (IF keys[1] = k THEN <<items[1]>> ELSE <<>>) \o WithKey(Tail(items), Tail(keys), k)

\* the whole list in place of the first group
whole_list(items, keys) == items

\* next(groupby(sorted(items, key), key)): the sort is stable, so the first group is
\* the items of the smallest key in their order
first_group(items, keys) ==
    IF items = <<>> THEN <<>>
    ELSE LET m == CHOOSE k \in SeqToSet(keys) : \A x \in SeqToSet(keys) : k <= x
         IN  WithKey(items, keys, m)

\* BestSystemSelector.best_system on the systems at the ranks given, all being the
\* systems the tracker was built on
best_system(given, all) ==
    LET top == first_group(given, [i \in DOMAIN given |-> - system_score(all[given[i]])])
    IN  IF Len(top) > 1
        THEN LET by_genes == first_group(top, [i \in DOMAIN top |-> overlapping_genes(all, top[i])])
             IN  IF Len(by_genes) > 1
                 THEN first_group(by_genes,
                                  [i \in DOMAIN by_genes |-> overlapping_length(all, by_genes[i])])
                 ELSE by_genes
        ELSE top

InitSelect ==
    /\ pc = "sel_input"
    /\ topology = "linear"
    /\ min_genes_required = 1
    /\ min_mandatory_genes_required = 1
    /\ hits = <<>>
    /\ clusters = <<>>
    /\ true_clusters = <<>>
    /\ true_loners = <<>>
    /\ multi_system_hits = <<>>
    /\ combination = <<>>
    /\ result = NoResult
    /\ score = -1
    /\ error = ""
    /\ weights = hit_weights
    /\ system_id = 0
    /\ systems = <<>>
    /\ sel_systems = <<>>
    /\ selector = <<>>
    /\ best_systems = <<>>
    /\ _idx = <<>>

\* a System of one of the models is found on some CoreHits of the replicon
SelNewSystem ==
    /\ pc = "sel_input"
    /\ Len(systems) < MaxSelSystems
    /\ \E fqn \in Models, ids \in SUBSET (DOMAIN PoolGenes) \ {{}} :
          systems' = Append(systems, SystemOfModel(fqn, <<Cluster(PoolHits(ids, 1))>>))
    /\ system_id' = system_id + 1
    /\ UNCHANGED <<pc, topology, min_genes_required, min_mandatory_genes_required, hits,
                   clusters, true_clusters, true_loners, multi_system_hits, combination,
                   result, score, error, weights, sel_systems, selector, best_systems>>
    /\ UNCHANGED _idx

\* the test of BestSystemSelector.__init__ that lets any list of systems through
different_models_never(given, all) == FALSE

\* BestSystemSelector.__init__: len(models) != 1
different_models(given, all) ==
    Cardinality({all[given[i]].model : i \in DOMAIN given}) # 1

\* the ranks of a set in increasing order
RECURSIVE RanksOf(_, _, _)
RanksOf(ranks, i, n) ==
    IF i > n THEN <<>>
    ELSE (IF i \in ranks THEN <<i>> ELSE <<>>) \o RanksOf(ranks, i + 1, n)

\* BestSystemSelector(systems, hit_tracker) on some of the Systems, the tracker being
\* built on all of them
SelBuild ==
    /\ pc = "sel_input"
    /\ \E ranks \in SUBSET (DOMAIN systems) :
          LET given == RanksOf(ranks, 1, Len(systems))
          IN  /\ sel_systems' = given
              /\ IF different_models(given, systems)
                 THEN /\ error' = "MacsypyError"
                      /\ pc' = "sel_failed"
                      /\ UNCHANGED selector
                 ELSE /\ error' = ""
                      /\ pc' = "sel_built"
                      /\ selector' = given
    /\ UNCHANGED <<topology, min_genes_required, min_mandatory_genes_required, hits,
                   clusters, true_clusters, true_loners, multi_system_hits, combination,
                   result, score, weights, system_id, systems, best_systems>>
    /\ UNCHANGED _idx

\* selector.best_system()
SelBest ==
    /\ pc = "sel_built"
    /\ best_systems' = best_system(selector, systems)
    /\ pc' = "sel_done"
    /\ UNCHANGED <<topology, min_genes_required, min_mandatory_genes_required, hits,
                   clusters, true_clusters, true_loners, multi_system_hits, combination,
                   result, score, error, weights, system_id, systems, sel_systems, selector>>
    /\ UNCHANGED _idx

NextSelect == SelNewSystem \/ SelBuild \/ SelBest

SpecSelect == InitSelect /\ [][NextSelect]_vars

\* the ids of the CoreHits of the System at rank r
HitIds(r) == {Flatten(systems[r].clusters)[k].id : k \in DOMAIN Flatten(systems[r].clusters)}

\* the pairs (hit of the System at rank r, System of another model holding the hit)
SharedWithOthers(r) ==
    {p \in HitIds(r) \X DOMAIN systems :
        systems[p[2]].model # systems[r].model /\ p[1] \in HitIds(p[2])}

\* overlap_genes: number of hits of the System also held by a System of another model
OverlapGenes(r) == Cardinality({p[1] : p \in SharedWithOthers(r)})

\* overlap_length: over such hits, the number of Systems of other models holding the hit
OverlapLength(r) == Cardinality(SharedWithOthers(r))

\* the greatest score of the systems the selector holds
TopScore == CHOOSE m \in {system_score(systems[r]) : r \in SeqToSet(selector)} :
                \A r \in SeqToSet(selector) : system_score(systems[r]) <= m

\* the systems of the selector that have the greatest score
TopSystems == {r \in SeqToSet(selector) : system_score(systems[r]) = TopScore}

\* the tied systems with the least overlap_genes, and among them the least overlap_length
LeastOverlap ==
    LET by_genes == {r \in TopSystems : \A o \in TopSystems : OverlapGenes(r) <= OverlapGenes(o)}
    IN  {r \in by_genes : \A o \in by_genes : OverlapLength(r) <= OverlapLength(o)}

\* C14: when several systems tie for the top score, best_system returns those with
\* the fewest hits shared with systems of other models, and among them those with
\* the smallest overlap_length.
C14_TieBreak ==
    (pc = "sel_done" /\ Cardinality(TopSystems) > 1) => SeqToSet(best_systems) = LeastOverlap

\* C15: best_system returns a non-empty list of systems of the selector that all have
\* the greatest score; when one system alone has it, the list holds that system only.
C15_BestScore ==
    pc = "sel_done" =>
        /\ best_systems # <<>>
        /\ SeqToSet(best_systems) \subseteq TopSystems
        /\ Cardinality(TopSystems) = 1 => Len(best_systems) = 1

\* C15 witness: best_system was called on three systems, one of which alone has the
\* greatest score, and returned it.
C15_Witness ==
    /\ pc = "sel_done"
    /\ Len(selector) = 3
    /\ Cardinality(TopSystems) = 1
    /\ \E r \in SeqToSet(selector) : system_score(systems[r]) < TopScore
    /\ SeqToSet(best_systems) = TopSystems

\* the models of the systems handed to BestSystemSelector
GivenModels == {systems[sel_systems[i]].model : i \in DOMAIN sel_systems}

\* C16: BestSystemSelector on systems of more than one model fails with an error and
\* no selector is made; on systems of one model it is built on these systems.
C16_OneModel ==
    pc \in {"sel_failed", "sel_built", "sel_done"} =>
        /\ Cardinality(GivenModels) > 1 =>
              (pc = "sel_failed" /\ error = "MacsypyError" /\ selector = <<>>)
        /\ Cardinality(GivenModels) = 1 =>
              (pc # "sel_failed" /\ error = "" /\ selector = sel_systems)

\* C16 witness: the construction on systems of two models has failed.
C16_Witness ==
    /\ pc = "sel_failed"
    /\ Cardinality(GivenModels) = 2
    /\ error = "MacsypyError"

----------------------------------------------------------------------------
(* SpecModel: Model objects are constructed *)

\* the largest quorum a Model is constructed with
MaxModelQuorum == 3

\* None for a quorum that is not given
NoQuorum == -1

\* the quorums a Model may be constructed with
QuorumArgs == {NoQuorum} \cup 0..MaxModelQuorum

\* Model.__init__ that never tests the quorums
Model_init_unchecked(fqn, igms, min_mandatory, min_genes) ==
    [kind |-> "Model", fqn |-> fqn, inter_gene_max_space |-> igms,
     min_mandatory_genes_required |-> min_mandatory, min_genes_required |-> min_genes,
     _mandatory_genes |-> <<>>, _accessory_genes |-> <<>>, _forbidden_genes |-> <<>>]

\* Model.__init__: the Model, or the ModelInconsistencyError with what its message tells
Model_init(fqn, igms, min_mandatory, min_genes) ==
    IF min_mandatory # NoQuorum /\ min_genes # NoQuorum /\ min_genes < min_mandatory
    THEN [kind |-> "ModelInconsistencyError", fqn |-> fqn, inter_gene_max_space |-> NoSpace,
          min_mandatory_genes_required |-> min_mandatory, min_genes_required |-> min_genes]
    ELSE [kind |-> "Model", fqn |-> fqn, inter_gene_max_space |-> igms,
          min_mandatory_genes_required |-> min_mandatory, min_genes_required |-> min_genes,
          _mandatory_genes |-> <<>>, _accessory_genes |-> <<>>, _forbidden_genes |-> <<>>]

InitModel ==
    /\ pc = "mod_run"
    /\ topology = "linear"
    /\ min_genes_required = 1
    /\ min_mandatory_genes_required = 1
    /\ hits = <<>>
    /\ clusters = <<>>
    /\ true_clusters = <<>>
    /\ true_loners = <<>>
    /\ multi_system_hits = <<>>
    /\ combination = <<>>
    /\ result = NoResult
    /\ score = -1
    /\ error = ""
    /\ weights = hit_weights
    /\ system_id = 0
    /\ systems = <<>>
    /\ sel_systems = <<>>
    /\ selector = <<>>
    /\ best_systems = <<>>
    /\ _idx = <<>>

\* Model(fqn, inter_gene_max_space, min_mandatory_genes_required, min_genes_required)
NewModel ==
    /\ pc = "mod_run"
    /\ \E fqn \in Models, igms \in 0..2, min_mandatory \in QuorumArgs, min_genes \in QuorumArgs :
          result' = Model_init(fqn, igms, min_mandatory, min_genes)
    /\ error' = IF result'.kind = "Model" THEN "" ELSE result'.kind
    /\ UNCHANGED <<pc, topology, min_genes_required, min_mandatory_genes_required, hits,
                   clusters, true_clusters, true_loners, multi_system_hits, combination,
                   score, weights, system_id, systems, sel_systems, selector, best_systems>>
    /\ UNCHANGED _idx

NextModel == NewModel

SpecModel == InitModel /\ [][NextModel]_vars

\* C18: a Model constructed with both quorums given has min_genes_required >=
\* min_mandatory_genes_required; the construction that would break this raised
\* ModelInconsistencyError and made no Model.
C18_QuorumOrder ==
    /\ (/\ result.kind = "Model"
        /\ result.min_mandatory_genes_required # NoQuorum
        /\ result.min_genes_required # NoQuorum)
       => result.min_genes_required >= result.min_mandatory_genes_required
    /\ result.kind = "ModelInconsistencyError"
       => (/\ error = "ModelInconsistencyError"
           /\ result.min_mandatory_genes_required # NoQuorum
           /\ result.min_genes_required # NoQuorum
           /\ result.min_genes_required < result.min_mandatory_genes_required)

\* C18 witness: the construction with min_genes_required 1 and
\* min_mandatory_genes_required 2 raised ModelInconsistencyError.
C18_Witness ==
    /\ result.kind = "ModelInconsistencyError"
    /\ result.min_genes_required = 1
    /\ result.min_mandatory_genes_required = 2
    /\ error = "ModelInconsistencyError"

----------------------------------------------------------------------------
(* What match keeps of the clusters it is given, stated on the run of SpecMatch *)

\* the gene of the hit has a mandatory, accessory or neutral role in the model
HasRole(g) ==
    CountsFor(g, mandatory_genes) \/ CountsFor(g, accessory_genes) \/ CountsFor(g, neutral_genes)

\* the ids of the hits of a list, in their order
IdsInOrder(hs) == [k \in DOMAIN hs |-> hs[k].id]

\* per input cluster, the hits that have a role; the clusters left empty are dropped
ExpectedClusters ==
    SelectSeq([i \in DOMAIN combination |->
                  IdsInOrder(SelectSeq(combination[i].hits, LAMBDA h : HasRole(h.gene)))],
              LAMBDA ids : ids # <<>>)

\* the combination with its neutral hits taken away
WithoutNeutral ==
    LET stripped == [i \in DOMAIN combination |->
                        SelectSeq(combination[i].hits,
                                  LAMBDA h : ~ CountsFor(h.gene, neutral_genes))]
        kept     == SelectSeq(stripped, LAMBDA hs : hs # <<>>)
    IN  [i \in DOMAIN kept |-> Cluster(kept[i])]

\* the quorums a reason says were not reached
QuorumsMissed(reason) == {reason[i].rule : i \in DOMAIN reason} \ {"forbidden"}

\* C19: the clusters of the System match returns hold, for each input cluster in the
\* same order, exactly the hits whose gene has a mandatory, accessory or neutral role,
\* in their order; no hit of a forbidden or unknown gene is kept, a cluster left
\* without a valid hit is dropped, and the neutral hits change nothing to the quorums.
C19_MatchKeeps ==
    Matched =>
        /\ result.kind = "System" =>
              /\ [i \in DOMAIN result.clusters |-> IdsInOrder(result.clusters[i].hits)]
                    = ExpectedClusters
              /\ \A i \in DOMAIN result.clusters : \A k \in DOMAIN result.clusters[i].hits :
                    result.clusters[i].hits[k].status \in {"mandatory", "accessory", "neutral"}
        /\ QuorumsMissed(match(WithoutNeutral, min_mandatory_genes_required,
                                min_genes_required).reason)
              = QuorumsMissed(result.reason)

\* C19 witness: match returned a System from two clusters and a cluster of an unknown
\* gene only: the unknown hit and its cluster are gone, the neutral hit is kept.
C19_Witness ==
    /\ Matched
    /\ result.kind = "System"
    /\ Len(combination) = 3
    /\ Len(result.clusters) = 2
    /\ \E i \in DOMAIN combination : \A k \in DOMAIN combination[i].hits :
          combination[i].hits[k].gene = "abc"
    /\ \E i \in DOMAIN result.clusters : \E k \in DOMAIN result.clusters[i].hits :
          result.clusters[i].hits[k].status = "neutral"

----------------------------------------------------------------------------
(* _collocates on any two hits of a replicon *)

\* the genes of the two hits: with a space of their own (sctN, tadZ) and without
CollocGenes == {"gspD", "sctJ", "sctN", "tadZ"}

InitColloc ==
    /\ pc = "col_input"
    /\ topology \in Topologies
    /\ min_genes_required = 1
    /\ min_mandatory_genes_required = 1
    /\ hits = <<>>
    /\ clusters = <<>>
    /\ true_clusters = <<>>
    /\ true_loners = <<>>
    /\ multi_system_hits = <<>>
    /\ combination = <<>>
    /\ result = NoResult
    /\ score = -1
    /\ error = ""
    /\ weights = hit_weights
    /\ system_id = 0
    /\ systems = <<>>
    /\ sel_systems = <<>>
    /\ selector = <<>>
    /\ best_systems = <<>>
    /\ _idx = <<>>

\* one more hit of the replicon: h1 first, then h2
ColAddHit ==
    /\ pc = "col_input"
    /\ Len(hits) < 2
    /\ \E pos \in Positions, g \in CollocGenes :
          hits' = Append(hits, ModelHit(Len(hits) + 1, pos, g, 1, "R1"))
    /\ UNCHANGED <<pc, topology, min_genes_required, min_mandatory_genes_required,
                   clusters, true_clusters, true_loners, multi_system_hits, combination,
                   result, score, error, weights, system_id, systems, sel_systems, selector,
                   best_systems>>
    /\ UNCHANGED _idx

\* _collocates(h1, h2, rep_info)
ColCollocates ==
    /\ pc = "col_input"
    /\ Len(hits) = 2
    /\ result' = [kind |-> "bool", value |-> collocates(hits[1], hits[2], topology)]
    /\ pc' = "col_done"
    /\ UNCHANGED <<topology, min_genes_required, min_mandatory_genes_required, hits,
                   clusters, true_clusters, true_loners, multi_system_hits, combination,
                   score, error, weights, system_id, systems, sel_systems, selector,
                   best_systems>>
    /\ UNCHANGED _idx

NextColloc == ColAddHit \/ ColCollocates

SpecColloc == InitColloc /\ [][NextColloc]_vars

\* the spaces the genes of the two hits have of their own
OwnSpaces == {GeneInterGeneMaxSpace(hits[i].gene) : i \in {1, 2}} \ {NoSpace}

\* D: the model's space when no gene has its own, else the smallest of the own ones
SpaceAllowed ==
    IF OwnSpaces = {} THEN ModelInterGeneMaxSpace
    ELSE CHOOSE d \in OwnSpaces : \A e \in OwnSpaces : d <= e

\* d: the number of genes between h1 and h2
GenesBetween == hits[2].position - hits[1].position - 1

\* C20: _collocates(h1, h2) is true exactly when 0 <= d <= D, or the replicon is
\* circular, d <= 0 and (max - h1.position) + (h2.position - min) <= D, with D the
\* model's value, the single gene value or the minimum of the two gene values; on a
\* linear replicon a pair with d < 0 never colocalizes.
C20_Collocates ==
    pc = "col_done" =>
        /\ result.value
              <=> \/ 0 <= GenesBetween /\ GenesBetween <= SpaceAllowed
                  \/ /\ topology = "circular"
                     /\ GenesBetween <= 0
                     /\ (RepMax - hits[1].position) + (hits[2].position - RepMin)
                           <= SpaceAllowed
        /\ (topology = "linear" /\ GenesBetween < 0) => ~ result.value

\* C20 witness: two hits whose genes both have a space of their own, different from
\* each other, h1 at the end and h2 at the start of a circular replicon: they
\* collocate over the origin.
C20_Witness ==
    /\ pc = "col_done"
    /\ topology = "circular"
    /\ Cardinality(OwnSpaces) = 2
    /\ GenesBetween < 0
    /\ result.value

----------------------------------------------------------------------------
(* The end of _clusterize, stated on the run of Spec *)

\* the last scaffold is one hit: the last hit does not colocalize with the one before
LastSingle == Uniq # <<>> /\ (Len(Uniq) = 1 \/ Len(Uniq) \in Breaks)

\* the scaffolds a break closed into a cluster
ClosedScaffolds == {r \in BrokenScaffolds : MayClose(r[1], r[2])}

\* the scaffold of the first cluster closed
FirstClosed == CHOOSE r \in ClosedScaffolds : \A q \in ClosedScaffolds : r[1] <= q[1]

\* the last hit colocalizes with the first hit of the first closed cluster
LastWrapsToFirst ==
    /\ ClosedScaffolds # {}
    /\ collocates(Uniq[Len(Uniq)], Uniq[FirstClosed[1]], topology)

\* C21: when the last scaffold is a single hit that colocalizes with the first hit of
\* the first closed cluster, the hit is put in front of the first cluster and no
\* cluster is appended; when it does not, the hit becomes a cluster of its own if its
\* gene is a loner or min_genes_required is 1, and is in no cluster otherwise.
C21_LastSingleHit ==
    (Clustered /\ LastSingle) =>
        LET last == Uniq[Len(Uniq)]
            nb   == Cardinality(ClosedScaffolds)
        IN  IF LastWrapsToFirst
            THEN /\ Len(clusters) = nb
                 /\ clusters[1].hits
                       = <<last>> \o SubSeq(Uniq, FirstClosed[1], FirstClosed[2])
            ELSE IF loner(last.gene) \/ min_genes_required = 1
            THEN /\ Len(clusters) = nb + 1
                 /\ clusters[Len(clusters)].hits = <<last>>
            ELSE /\ Len(clusters) = nb
                 /\ \A c \in DOMAIN clusters : last.id \notin Ids(clusters[c].hits)

\* C21 witness: on a circular replicon the last hit stands alone, colocalizes with
\* the first hit of the first cluster across the origin and is now its first hit.
C21_Witness ==
    /\ Clustered
    /\ LastSingle
    /\ LastWrapsToFirst
    /\ Len(Uniq) = 3
    /\ Len(clusters) = 1
    /\ clusters[1].hits[1] = Uniq[3]

\* the clusters of _clusterize once the last scaffold is closed, before the last test
BeforeStitch ==
    IF Uniq = <<>> THEN <<>>
    ELSE LET swept == Sweep(Uniq, 2, <<Uniq[1]>>, <<>>, topology, min_genes_required)
         IN  CloseLast(swept.clusters, swept.scaffold, topology, min_genes_required)

\* the last hit of the last cluster colocalizes with the first hit of the first one
EndsMeet(clstrs) ==
    /\ Len(clstrs) >= 2
    /\ LET last == clstrs[Len(clstrs)].hits
       IN  collocates(last[Len(last)], clstrs[1].hits[1], topology)

\* how many times hit number id is in the clusters
TimesIn(clstrs, id) ==
    Cardinality({i \in DOMAIN Flatten(clstrs) : Flatten(clstrs)[i].id = id})

\* C22: at the end of _clusterize, if at least 2 clusters remain and the last hit of
\* the last cluster colocalizes with the first hit of the first cluster, the hits of
\* the last cluster come in front of those of the first and the last cluster is
\* removed: one cluster less, the same multiset of hits; otherwise the list is left
\* as it is.
C22_CircularStitch ==
    Clustered =>
        LET pre == BeforeStitch
            n   == Len(pre)
        IN  IF EndsMeet(pre)
            THEN /\ Len(clusters) = n - 1
                 /\ clusters[1].hits = pre[n].hits \o pre[1].hits
                 /\ \A i \in 2..(n - 1) : clusters[i] = pre[i]
                 /\ \A id \in 1..MaxHits : TimesIn(clusters, id) = TimesIn(pre, id)
            ELSE clusters = pre

\* C22 witness: on a circular replicon two clusters were closed, the second of two
\* hits, and they come back as one cluster that starts with the hits of the second.
C22_Witness ==
    /\ Clustered
    /\ EndsMeet(BeforeStitch)
    /\ Len(BeforeStitch) = 2
    /\ Len(BeforeStitch[2].hits) = 2
    /\ Len(clusters) = 1
    /\ Len(clusters[1].hits) = 3

----------------------------------------------------------------------------
(* set_multi_system_hit, stated on the run of Spec *)

\* the functional keys declared multi-system that have a hit in the clusters
MultiSystemKeys ==
    {alternate_of(Flatten(clusters)[i].gene) : i \in DOMAIN Flatten(clusters)}
        \cap MultiSystemGenes

\* the hits of the clusters that stand for the functional key f
HitsOfKey(f) ==
    {Flatten(clusters)[i] : i \in {k \in DOMAIN Flatten(clusters) :
                                       alternate_of(Flatten(clusters)[k].gene) = f}}

\* C23: for any list of clusters with at least one hit whose functional key is
\* declared multi-system, set_multi_system_hit completes normally and returns a
\* mapping holding for each such key exactly one single-hit cluster: the MultiSystem
\* hit of the key with the highest score, whose counterpart is the other hits of the
\* key.
C23_MultiSystemPromotion ==
    (Clustered /\ MultiSystemKeys # {}) =>
        /\ error # "TypeError"
        /\ \A f \in MultiSystemKeys :
              /\ Cardinality({i \in DOMAIN multi_system_hits :
                                 multi_system_hits[i].func = f}) = 1
              /\ \A i \in DOMAIN multi_system_hits :
                    multi_system_hits[i].func = f =>
                        LET c == multi_system_hits[i].cluster
                        IN  /\ Len(c.hits) = 1
                            /\ c.hits[1].type = "MultiSystem"
                            /\ c.hits[1].id \in {h.id : h \in HitsOfKey(f)}
                            /\ \A h \in HitsOfKey(f) : h.score <= c.hits[1].score
                            /\ {c.hits[1].counterpart[k].id : k \in DOMAIN c.hits[1].counterpart}
                                  = {h.id : h \in HitsOfKey(f)} \ {c.hits[1].id}

----------------------------------------------------------------------------
(* SpecLoners: _get_true_loners on clusters built by hand *)

\* number of clusters handed to _get_true_loners
MaxLonerClusters == 3

\* the genes of the hits: a plain gene, a loner, a loner that is multi-system too
LonerSpecGenes == {"gspD", "sctJ", "tadZ"}

InitLoners ==
    /\ pc = "l_input"
    /\ topology = "linear"
    /\ min_genes_required = 1
    /\ min_mandatory_genes_required = 1
    /\ hits = <<>>
    /\ clusters = <<>>
    /\ true_clusters = <<>>
    /\ true_loners = <<>>
    /\ multi_system_hits = <<>>
    /\ combination = <<>>
    /\ result = NoResult
    /\ score = -1
    /\ error = ""
    /\ weights = hit_weights
    /\ system_id = 0
    /\ systems = <<>>
    /\ sel_systems = <<>>
    /\ selector = <<>>
    /\ best_systems = <<>>
    /\ _idx = <<>>

\* one more cluster in the list: of one hit, or of two hits
LNewCluster ==
    /\ pc = "l_input"
    /\ Len(clusters) < MaxLonerClusters
    /\ LET first == 2 * Len(clusters)
       IN  \E g \in LonerSpecGenes :
              \/ \E sc \in Scores :
                    clusters' = Append(clusters,
                                       Cluster(<<ModelHit(first + 1, first + 1, g, sc, "R1")>>))
              \/ clusters' = Append(clusters,
                                    Cluster(<<ModelHit(first + 1, first + 1, g, 1, "R1"),
                                              ModelHit(first + 2, first + 2, "gspD", 1, "R1")>>))
    /\ UNCHANGED <<pc, topology, min_genes_required, min_mandatory_genes_required, hits,
                   true_clusters, true_loners, multi_system_hits, combination, result,
                   score, error, weights, system_id, systems, sel_systems, selector,
                   best_systems>>
    /\ UNCHANGED _idx

\* _get_true_loners(clusters, model, hit_weights)
LGetTrueLoners ==
    /\ pc = "l_input"
    /\ LET tl == get_true_loners(clusters)
       IN  IF tl.error # ""
           THEN /\ pc' = "l_failed"
                /\ error' = tl.error
                /\ UNCHANGED <<true_clusters, true_loners>>
           ELSE /\ pc' = "l_done"
                /\ error' = ""
                /\ true_clusters' = tl.true_clusters
                /\ true_loners' = tl.true_loners
    /\ UNCHANGED <<topology, min_genes_required, min_mandatory_genes_required, hits,
                   clusters, multi_system_hits, combination, result, score, weights,
                   system_id, systems, sel_systems, selector, best_systems>>
    /\ UNCHANGED _idx

NextLoners == LNewCluster \/ LGetTrueLoners

SpecLoners == InitLoners /\ [][NextLoners]_vars

\* the cluster is a single hit of a loner gene
SingleLoner(c) == Len(c.hits) = 1 /\ c.hits[1].gene \in LonerGenes

\* the functional keys that have a cluster of a single loner hit
LonerKeys == {alternate_of(clusters[i].hits[1].gene) :
                 i \in {k \in DOMAIN clusters : SingleLoner(clusters[k])}}

\* the single loner hits of the functional key f, in the order of the clusters
PooledHits(f) ==
    LET cs == SelectSeq(clusters,
                        LAMBDA c : SingleLoner(c) /\ alternate_of(c.hits[1].gene) = f)
    IN  [i \in DOMAIN cs |-> cs[i].hits[1]]

\* C24: the cluster list _get_true_loners returns is exactly the input clusters that
\* are not a single hit of a loner gene, in their order and with their hits
\* unchanged (a single hit of another gene stays); every single-hit cluster of a
\* loner gene is out of the list and its hit is in the pool of its functional key,
\* once, and in no other pool.
C24_LonerPartition ==
    /\ pc = "l_done" =>
          /\ true_clusters = SelectSeq(clusters, LAMBDA c : ~ SingleLoner(c))
          /\ \A i \in DOMAIN clusters :
                SingleLoner(clusters[i]) =>
                    clusters[i].hits[1].id \notin Ids(Flatten(true_clusters))
    /\ pc \in {"l_done", "l_failed"} =>
          \A f \in LonerSpecGenes : loner_pool(clusters, f) = PooledHits(f)

\* C24 witness: a cluster of two hits, a single hit of a gene that is no loner and two
\* single hits of a loner gene went in; the first two came back as the cluster list.
C24_Witness ==
    /\ pc = "l_done"
    /\ Len(clusters) = 3
    /\ Len(true_clusters) = 2
    /\ \E i \in DOMAIN true_clusters : Len(true_clusters[i].hits) = 1
    /\ \E i \in DOMAIN true_clusters : Len(true_clusters[i].hits) = 2
    /\ LonerKeys = {"sctJ"}

\* the first hit of the best score among the hits of a list
BestPooled(hs) ==
    hs[CHOOSE i \in DOMAIN hs :
          /\ \A j \in DOMAIN hs : hs[j].score <= hs[i].score
          /\ \A j \in 1..(i - 1) : hs[j].score < hs[i].score]

\* C25: for every functional key with a non-empty pool of true loners,
\* _get_true_loners returns one single-hit cluster for the key: the pooled hit of the
\* highest score turned into a Loner hit (a LonerMultiSystem hit when the gene is
\* multi-system too) that carries the other pooled hits as counterparts; also when
\* the gene of the pool is multi-system and when the pool is the first one.
C25_LonerConversion ==
    pc \in {"l_done", "l_failed"} =>
        /\ error = ""
        /\ \A f \in LonerKeys :
              /\ Cardinality({i \in DOMAIN true_loners : true_loners[i].func = f}) = 1
              /\ \A i \in DOMAIN true_loners :
                    true_loners[i].func = f =>
                        LET hs == true_loners[i].cluster.hits
                        IN  /\ Len(hs) = 1
                            /\ hs[1].id = BestPooled(PooledHits(f)).id
                            /\ hs[1].type = IF f \in MultiSystemGenes
                                            THEN "LonerMultiSystem" ELSE "Loner"
                            /\ Ids(hs[1].counterpart) = Ids(PooledHits(f)) \ {hs[1].id}

----------------------------------------------------------------------------
(* SpecFilter: Model.filter and match on the same hits *)

\* number of hits handed to Model.filter and to match
MaxFilterHits == 2

\* the genes of the hits: the genes of each role, their alternates, a foreign gene
FilterGenes == {"gspD", "gspDh", "sctJ", "sctJh", "flgB", "flgBh", "sctC", "sctCh", "abc"}

\* primary_genes of Model.filter: the mandatory, accessory and forbidden genes
primary_genes == mandatory_genes \o accessory_genes \o forbidden_genes

\* exchangeable_genes of Model.filter: the analogs and homologs of the primary genes
\* that are exchangeable
exchangeable_genes ==
    {a \in DOMAIN Alternates :
        InSeq(Alternates[a], primary_genes) /\ Alternates[a] \in ExchangeableGenes}

\* all_genes of Model.filter
all_genes == SeqToSet(primary_genes) \cup exchangeable_genes

\* Model.filter(hits)
filter(hs) == SelectSeq(hs, LAMBDA h : h.gene \in all_genes)

InitFilter ==
    /\ pc = "f_input"
    /\ topology = "linear"
    /\ min_genes_required = 1
    /\ min_mandatory_genes_required = 1
    /\ hits = <<>>
    /\ clusters = <<>>
    /\ true_clusters = <<>>
    /\ true_loners = <<>>
    /\ multi_system_hits = <<>>
    /\ combination = <<>>
    /\ result = NoResult
    /\ score = -1
    /\ error = ""
    /\ weights = hit_weights
    /\ system_id = 0
    /\ systems = <<>>
    /\ sel_systems = <<>>
    /\ selector = <<>>
    /\ best_systems = <<>>
    /\ _idx = <<>>

\* the similarity search reports one more hit
FAddHit ==
    /\ pc = "f_input"
    /\ Len(hits) < MaxFilterHits
    /\ \E g \in FilterGenes :
          hits' = Append(hits, ModelHit(Len(hits) + 1, Len(hits) + 1, g, 1, "R1"))
    /\ UNCHANGED <<pc, topology, min_genes_required, min_mandatory_genes_required,
                   clusters, true_clusters, true_loners, multi_system_hits, combination,
                   result, score, error, weights, system_id, systems, sel_systems, selector,
                   best_systems>>
    /\ UNCHANGED _idx

\* model.filter(hits)
FFilter ==
    /\ pc = "f_input"
    /\ result' = [kind |-> "hits", hits |-> filter(hits)]
    /\ pc' = "f_filtered"
    /\ UNCHANGED <<topology, min_genes_required, min_mandatory_genes_required, hits,
                   clusters, true_clusters, true_loners, multi_system_hits, combination,
                   score, error, weights, system_id, systems, sel_systems, selector,
                   best_systems>>
    /\ UNCHANGED _idx

\* match([Cluster(hits)], model) on the same hits
FMatch ==
    /\ pc = "f_input"
    /\ hits # <<>>
    /\ combination' = <<Cluster(hits)>>
    /\ \E min_mandatory \in 1..2, min_genes \in 1..2 :
          /\ min_genes >= min_mandatory
          /\ min_mandatory_genes_required' = min_mandatory
          /\ min_genes_required' = min_genes
          /\ result' = match(combination', min_mandatory, min_genes)
    /\ pc' = "f_matched"
    /\ system_id' = IF result'.kind = "System" THEN system_id + 1 ELSE system_id
    /\ UNCHANGED <<topology, hits, clusters, true_clusters, true_loners, multi_system_hits,
                   score, error, weights, systems, sel_systems, selector, best_systems>>
    /\ UNCHANGED _idx

NextFilter == FAddHit \/ FFilter \/ FMatch

SpecFilter == InitFilter /\ [][NextFilter]_vars

\* the genes of the model, whatever their role
ModelGenes ==
    SeqToSet(mandatory_genes) \cup SeqToSet(accessory_genes)
        \cup SeqToSet(neutral_genes) \cup SeqToSet(forbidden_genes)

\* the role of a gene of the model
RoleOf(g) ==
    IF InSeq(g, mandatory_genes) THEN "mandatory"
    ELSE IF InSeq(g, accessory_genes) THEN "accessory"
    ELSE IF InSeq(g, neutral_genes) THEN "neutral"
    ELSE "forbidden"

\* the gene is a declared alternate of a gene of the model
AlternateOfModelGene(a) == a \in DOMAIN Alternates /\ Alternates[a] \in ModelGenes

\* the gene is accepted for the model: a gene of the model, or an alternate of a gene
\* of the model that is flagged exchangeable
Accepted(a) ==
    \/ a \in ModelGenes
    \/ AlternateOfModelGene(a) /\ Alternates[a] \in ExchangeableGenes

\* the gene a hit of gene a is counted under, when it is accepted
CountedUnder(a) == IF a \in ModelGenes THEN a ELSE Alternates[a]

\* Model.filter keeps the hits of the alternates of the exchangeable genes of the
\* model and removes the alternates of the genes that are not exchangeable
FilterKeepsAlternates ==
    pc = "f_filtered" =>
        \A i \in DOMAIN hits :
            AlternateOfModelGene(hits[i].gene) =>
                ((\E k \in DOMAIN result.hits : result.hits[k].id = hits[i].id)
                    <=> Alternates[hits[i].gene] \in ExchangeableGenes)

\* match counts every accepted hit for the role of its gene under the name of that
\* gene, counts the other hits in no role, and tags the hits it keeps
MatchCountsAlternates ==
    pc = "f_matched" =>
        /\ \A g \in ModelGenes : \A r \in {"mandatory", "accessory", "neutral", "forbidden"} :
              counter(hits, r, g)
                = IF r = RoleOf(g)
                  THEN Cardinality({i \in DOMAIN hits :
                                       Accepted(hits[i].gene) /\ CountedUnder(hits[i].gene) = g})
                  ELSE 0
        /\ result.kind = "System" =>
              \A c \in DOMAIN result.clusters : \A k \in DOMAIN result.clusters[c].hits :
                  LET vh == result.clusters[c].hits[k]
                  IN  /\ Accepted(vh.gene)
                      /\ vh.gene_ref = CountedUnder(vh.gene)
                      /\ vh.status = RoleOf(CountedUnder(vh.gene))

----------------------------------------------------------------------------
(* SpecCache: one Cluster object, its lazily computed score and roles *)

\* number of hits of the cluster
MaxCacheHits == 3

\* the genes of the hits of the cluster
CacheGenes == {"gspD", "gspDh", "sctJ", "flgB"}

\* None in _score
NoScore == -1

\* None in _genes_roles
NoRoles == {"None"}

\* Cluster.__init__ with the two fields computed on demand
NewCluster(hs) == [hits |-> hs, _score |-> NoScore, _genes_roles |-> NoRoles]

\* Cluster.score: the value kept in _score if there is one, else the computed one
score_of(c) == IF c._score # NoScore THEN c._score ELSE cluster_score(c)

\* _genes_roles after a call of fulfilled_function
genes_roles_of(c) ==
    IF c._genes_roles = NoRoles
    THEN {alternate_of(c.hits[i].gene_ref) : i \in DOMAIN c.hits}
    ELSE c._genes_roles

\* Cluster.replace(old, new) for the hit at rank idx
replace_hit(c, idx, new) == [c EXCEPT !.hits[idx] = new]

InitCache ==
    /\ pc = "c_new"
    /\ topology = "linear"
    /\ min_genes_required = 1
    /\ min_mandatory_genes_required = 1
    /\ hits = <<>>
    /\ \E g \in CacheGenes : clusters = <<NewCluster(<<ModelHit(1, 1, g, 1, "R1")>>)>>
    /\ true_clusters = <<>>
    /\ true_loners = <<>>
    /\ multi_system_hits = <<>>
    /\ combination = <<>>
    /\ result = NoResult
    /\ score = -1
    /\ error = ""
    /\ weights = hit_weights
    /\ system_id = 0
    /\ systems = <<>>
    /\ sel_systems = <<>>
    /\ selector = <<>>
    /\ best_systems = <<>>
    /\ _idx = <<>>

\* cluster.score
CScore ==
    /\ score' = score_of(clusters[1])
    /\ clusters' = [clusters EXCEPT ![1]._score = score']
    /\ pc' = "c_score"
    /\ UNCHANGED <<topology, min_genes_required, min_mandatory_genes_required, hits,
                   true_clusters, true_loners, multi_system_hits, combination, result,
                   error, weights, system_id, systems, sel_systems, selector, best_systems>>
    /\ UNCHANGED _idx

\* cluster.fulfilled_function(gene)
CFulfilledFunction ==
    /\ \E g \in {"gspD", "sctJ", "flgB"} :
          result' = [kind |-> "bool", gene |-> g, value |-> g \in genes_roles_of(clusters[1])]
    /\ clusters' = [clusters EXCEPT ![1]._genes_roles = genes_roles_of(clusters[1])]
    /\ pc' = "c_fulfilled_function"
    /\ UNCHANGED <<topology, min_genes_required, min_mandatory_genes_required, hits,
                   true_clusters, true_loners, multi_system_hits, combination, score,
                   error, weights, system_id, systems, sel_systems, selector, best_systems>>
    /\ UNCHANGED _idx

\* cluster.merge(other, before) with another cluster of one hit of the same model
CMerge ==
    /\ Len(clusters[1].hits) < MaxCacheHits
    /\ \E g \in CacheGenes, before \in BOOLEAN :
          LET n     == Len(clusters[1].hits) + 1
              other == NewCluster(<<ModelHit(n, n, g, 1, "R1")>>)
          IN  clusters' = [clusters EXCEPT ![1] = merge(clusters[1], other, before)]
    /\ pc' = "c_merge"
    /\ UNCHANGED <<topology, min_genes_required, min_mandatory_genes_required, hits,
                   true_clusters, true_loners, multi_system_hits, combination, result,
                   score, error, weights, system_id, systems, sel_systems, selector,
                   best_systems>>
    /\ UNCHANGED _idx

\* cluster.replace(old, new): new is a hit of another gene for the same sequence
CReplace ==
    /\ \E idx \in DOMAIN clusters[1].hits, g \in CacheGenes :
          LET old == clusters[1].hits[idx]
          IN  /\ g # old.gene
              /\ clusters' = [clusters EXCEPT
                                 ![1] = replace_hit(clusters[1], idx,
                                                    ModelHit(old.id, old.position, g, 1, "R1"))]
    /\ pc' = "c_replace"
    /\ UNCHANGED <<topology, min_genes_required, min_mandatory_genes_required, hits,
                   true_clusters, true_loners, multi_system_hits, combination, result,
                   score, error, weights, system_id, systems, sel_systems, selector,
                   best_systems>>
    /\ UNCHANGED _idx

NextCache == CScore \/ CFulfilledFunction \/ CMerge \/ CReplace

SpecCache == InitCache /\ [][NextCache]_vars

\* C27: after any sequence of score reads, merge calls and replace calls on a Cluster,
\* the value Cluster.score returns is the score computed from the current hits of
\* the cluster, and fulfilled_function answers according to the current hits.
C27_NoStaleCache ==
    /\ pc = "c_score" =>
          score = SumOfBest(clusters[1].hits, FunctionalKeys(clusters[1].hits))
    /\ pc = "c_fulfilled_function" =>
          (result.value <=> result.gene \in FunctionalKeys(clusters[1].hits))

----------------------------------------------------------------------------
(* SpecSerial: a System and its two views, SystemSerializer.to_json and __str__ *)

\* number of clusters of the System
MaxSerClusters == 2

\* the genes of the hits of the System
SerialGenes == {"gspD", "sctJ", "flgB"}

\* System.loci: the clusters of more than one hit
loci(sys) == Cardinality({i \in DOMAIN sys.clusters : Len(sys.clusters[i].hits) > 1})

\* System._count: for each gene of a role, the hits that count for it
occ(sys, role, genes) ==
    [g \in SeqToSet(genes) |->
        SelectSeq(Flatten(sys.clusters), LAMBDA h : h.status = role /\ h.gene_ref = g)]

\* [hit.gene.name for hit in hits]
gene_names(hs) == [i \in DOMAIN hs |-> hs[i].gene]

\* {gene_ref: [hit.gene.name for hit in hits] for gene_ref, hits in occ.items()}
composition(sys, role, genes) ==
    [g \in SeqToSet(genes) |-> gene_names(occ(sys, role, genes)[g])]

\* System.wholeness in thousandths: the mandatory and accessory genes that have a hit
\* over the number of mandatory and accessory genes
wholeness(sys) ==
    (1000 * (Cardinality({g \in SeqToSet(mandatory_genes) :
                             occ(sys, "mandatory", mandatory_genes)[g] # <<>>})
             + Cardinality({g \in SeqToSet(accessory_genes) :
                               occ(sys, "accessory", accessory_genes)[g] # <<>>})))
        \div (Len(mandatory_genes) + Len(accessory_genes))

\* the k-th smallest value of a list of numbers
kth_smallest(vals, k) ==
    CHOOSE v \in {vals[i] : i \in DOMAIN vals} :
        /\ Cardinality({i \in DOMAIN vals : vals[i] < v}) < k
        /\ Cardinality({i \in DOMAIN vals : vals[i] <= v}) >= k

\* twice statistics.median(vals): the middle value, or the mean of the two middle ones
twice_median(vals) ==
    LET n == Len(vals)
    IN  IF n % 2 = 1 THEN 2 * kth_smallest(vals, (n + 1) \div 2)
        ELSE kth_smallest(vals, n \div 2) + kth_smallest(vals, n \div 2 + 1)

\* round(x) of Python for x = twice / 2: a half goes to the even neighbour
round_half_even(twice) ==
    LET q == twice \div 2
    IN  IF twice % 2 = 0 THEN q ELSE IF q % 2 = 0 THEN q ELSE q + 1

\* System.occurrence: max(1, round(median of the numbers of hits of the mandatory genes))
occurrence(sys) ==
    LET occ_per_gene == [i \in DOMAIN mandatory_genes |->
                            Len(occ(sys, "mandatory", mandatory_genes)[mandatory_genes[i]])]
        r == round_half_even(twice_median(occ_per_gene))
    IN  IF r >= 1 THEN r ELSE 1

\* SystemSerializer.to_json: the fields of the JSON object
to_json(sys) ==
    [kind |-> "json",
     id |-> sys.id,
     model |-> sys.model,
     loci_nb |-> Len(sys.clusters),
     replicon_name |-> sys.replicon_name,
     clusters |-> [i \in DOMAIN sys.clusters |-> gene_names(sys.clusters[i].hits)],
     gene_composition |->
         [mandatory |-> composition(sys, "mandatory", mandatory_genes),
          accessory |-> composition(sys, "accessory", accessory_genes),
          neutral   |-> composition(sys, "neutral", neutral_genes)]]

\* SystemSerializer.__str__: the lines of the text, with a tracker that holds this
\* system only (no hit is used in a system of another model)
to_str(sys) ==
    [kind |-> "str",
     id |-> sys.id,
     model |-> sys.model,
     replicon_name |-> sys.replicon_name,
     clusters |-> [i \in DOMAIN sys.clusters |->
                      [k \in DOMAIN sys.clusters[i].hits |->
                          <<sys.clusters[i].hits[k].gene, sys.clusters[i].hits[k].position>>]],
     occ |-> occurrence(sys),
     wholeness |-> wholeness(sys),
     loci_nb |-> loci(sys),
     score |-> system_score(sys),
     genes |->
         [mandatory |-> composition(sys, "mandatory", mandatory_genes),
          accessory |-> composition(sys, "accessory", accessory_genes),
          neutral   |-> composition(sys, "neutral", neutral_genes)]]

InitSerial ==
    /\ pc = "ser_input"
    /\ topology = "linear"
    /\ min_genes_required = 1
    /\ min_mandatory_genes_required = 1
    /\ hits = <<>>
    /\ clusters = <<>>
    /\ true_clusters = <<>>
    /\ true_loners = <<>>
    /\ multi_system_hits = <<>>
    /\ combination = <<>>
    /\ result = NoResult
    /\ score = -1
    /\ error = ""
    /\ weights = hit_weights
    /\ system_id = 0
    /\ systems = <<>>
    /\ sel_systems = <<>>
    /\ selector = <<>>
    /\ best_systems = <<>>
    /\ _idx = <<>>

\* one more cluster of valid hits for the System: of one hit, or of two hits
SerNewCluster ==
    /\ pc = "ser_input"
    /\ Len(combination) < MaxSerClusters
    /\ \E n \in 1..2 : \E genes \in [1..n -> SerialGenes] :
          LET first == 2 * Len(combination)
              vh(i) == ValidHit(ModelHit(first + i, first + i, genes[i], 1, "R1"),
                                genes[i], gene_status(genes[i]))
          IN  combination' = Append(combination, Cluster([i \in 1..n |-> vh(i)]))
    /\ UNCHANGED <<pc, topology, min_genes_required, min_mandatory_genes_required, hits,
                   clusters, true_clusters, true_loners, multi_system_hits, result, score,
                   error, weights, system_id, systems, sel_systems, selector, best_systems>>
    /\ UNCHANGED _idx

\* System(model, clusters)
SerNewSystem ==
    /\ pc = "ser_input"
    /\ combination # <<>>
    /\ systems' = <<System(combination)>>
    /\ system_id' = system_id + 1
    /\ pc' = "ser_system"
    /\ UNCHANGED <<topology, min_genes_required, min_mandatory_genes_required, hits,
                   clusters, true_clusters, true_loners, multi_system_hits, combination,
                   result, score, error, weights, sel_systems, selector, best_systems>>
    /\ UNCHANGED _idx

\* SystemSerializer(system, tracker).to_json()
SerToJson ==
    /\ pc = "ser_system"
    /\ result' = to_json(systems[1])
    /\ pc' = "ser_json"
    /\ UNCHANGED <<topology, min_genes_required, min_mandatory_genes_required, hits,
                   clusters, true_clusters, true_loners, multi_system_hits, combination,
                   score, error, weights, system_id, systems, sel_systems, selector,
                   best_systems>>
    /\ UNCHANGED _idx

\* str(SystemSerializer(system, tracker))
SerStr ==
    /\ pc = "ser_system"
    /\ result' = to_str(systems[1])
    /\ pc' = "ser_str"
    /\ UNCHANGED <<topology, min_genes_required, min_mandatory_genes_required, hits,
                   clusters, true_clusters, true_loners, multi_system_hits, combination,
                   score, error, weights, system_id, systems, sel_systems, selector,
                   best_systems>>
    /\ UNCHANGED _idx

NextSerial == SerNewCluster \/ SerNewSystem \/ SerToJson \/ SerStr

SpecSerial == InitSerial /\ [][NextSerial]_vars

\* C28: for every System the number of loci of the JSON view equals the number of
\* the text view and System.loci, also for a System that holds clusters of one hit.
C28_LociAgree ==
    pc = "ser_json" =>
        /\ result.loci_nb = to_str(systems[1]).loci_nb
        /\ result.loci_nb = loci(systems[1])

----------------------------------------------------------------------------
(* SpecModelGenes: a Model, the genes added to it and its effective quorums *)

\* number of genes added to the Model
MaxModelGenes == 3

\* the genes that may be added
ModelGenePool == {"gspD", "sctJ", "sctN", "sctC"}

\* Model.min_mandatory_genes_required (the property)
Model_min_mandatory_genes_required(m) ==
    IF m.min_mandatory_genes_required = NoQuorum THEN Len(m._mandatory_genes)
    ELSE m.min_mandatory_genes_required

\* Model.min_genes_required (the property)
Model_min_genes_required(m) ==
    IF m.min_genes_required = NoQuorum THEN Len(m._mandatory_genes)
    ELSE m.min_genes_required

\* the genes the Model holds, whatever their list
GenesOfModel(m) ==
    SeqToSet(m._mandatory_genes) \cup SeqToSet(m._accessory_genes)
        \cup SeqToSet(m._forbidden_genes)

InitModelGenes ==
    /\ pc = "mg_new"
    /\ topology = "linear"
    /\ min_genes_required = 1
    /\ min_mandatory_genes_required = 1
    /\ hits = <<>>
    /\ clusters = <<>>
    /\ true_clusters = <<>>
    /\ true_loners = <<>>
    /\ multi_system_hits = <<>>
    /\ combination = <<>>
    /\ result = NoResult
    /\ score = -1
    /\ error = ""
    /\ weights = hit_weights
    /\ system_id = 0
    /\ systems = <<>>
    /\ sel_systems = <<>>
    /\ selector = <<>>
    /\ best_systems = <<>>
    /\ _idx = <<>>

\* Model(fqn, inter_gene_max_space, min_mandatory_genes_required, min_genes_required)
MGNewModel ==
    /\ pc = "mg_new"
    /\ \E fqn \in Models, min_mandatory \in QuorumArgs, min_genes \in QuorumArgs :
          result' = Model_init(fqn, ModelInterGeneMaxSpace, min_mandatory, min_genes)
    /\ error' = IF result'.kind = "Model" THEN "" ELSE result'.kind
    /\ pc' = IF result'.kind = "Model" THEN "mg_model" ELSE "mg_failed"
    /\ UNCHANGED <<topology, min_genes_required, min_mandatory_genes_required, hits,
                   clusters, true_clusters, true_loners, multi_system_hits, combination,
                   score, weights, system_id, systems, sel_systems, selector, best_systems>>
    /\ UNCHANGED _idx

\* model.add_mandatory_gene(gene)
MGAddMandatory ==
    /\ pc = "mg_model"
    /\ Cardinality(GenesOfModel(result)) < MaxModelGenes
    /\ \E g \in ModelGenePool \ GenesOfModel(result) :
          result' = [result EXCEPT !._mandatory_genes = Append(@, g)]
    /\ UNCHANGED <<pc, topology, min_genes_required, min_mandatory_genes_required, hits,
                   clusters, true_clusters, true_loners, multi_system_hits, combination,
                   score, error, weights, system_id, systems, sel_systems, selector,
                   best_systems>>
    /\ UNCHANGED _idx

\* model.add_accessory_gene(gene)
MGAddAccessory ==
    /\ pc = "mg_model"
    /\ Cardinality(GenesOfModel(result)) < MaxModelGenes
    /\ \E g \in ModelGenePool \ GenesOfModel(result) :
          result' = [result EXCEPT !._accessory_genes = Append(@, g)]
    /\ UNCHANGED <<pc, topology, min_genes_required, min_mandatory_genes_required, hits,
                   clusters, true_clusters, true_loners, multi_system_hits, combination,
                   score, error, weights, system_id, systems, sel_systems, selector,
                   best_systems>>
    /\ UNCHANGED _idx

\* model.add_forbidden_gene(gene)
MGAddForbidden ==
    /\ pc = "mg_model"
    /\ Cardinality(GenesOfModel(result)) < MaxModelGenes
    /\ \E g \in ModelGenePool \ GenesOfModel(result) :
          result' = [result EXCEPT !._forbidden_genes = Append(@, g)]
    /\ UNCHANGED <<pc, topology, min_genes_required, min_mandatory_genes_required, hits,
                   clusters, true_clusters, true_loners, multi_system_hits, combination,
                   score, error, weights, system_id, systems, sel_systems, selector,
                   best_systems>>
    /\ UNCHANGED _idx

NextModelGenes == MGNewModel \/ MGAddMandatory \/ MGAddAccessory \/ MGAddForbidden

SpecModelGenes == InitModelGenes /\ [][NextModelGenes]_vars

\* C29: for every Model, after any sequence of add_mandatory_gene, add_accessory_gene
\* and add_forbidden_gene calls, the effective quorums satisfy min_genes_required >=
\* min_mandatory_genes_required, also when only one of the two was given and the
\* other defaults to the number of mandatory genes.
C29_EffectiveQuorumOrder ==
    pc = "mg_model" =>
        Model_min_genes_required(result) >= Model_min_mandatory_genes_required(result)

----------------------------------------------------------------------------
(* SpecGembase: RepliconDB._fill_gembase_min_max on a gembase index *)

\* number of sequences of the index
MaxSeqs == 4

\* the names of the replicons, as the pieces that '_' separates: A, A_b and B
RepliconNames == {<<"A">>, <<"A", "b">>, <<"B">>}

\* the names of the sequences, by rank in the index
SeqNames == <<"001", "002", "003", "004", "005", "006">>

\* the lengths of the sequences
SeqLengths == {100, 200}

\* the value of the variable rank before the first turn of the inner loop (unbound)
NoRank == 0

\* one entry of the index: (seq_id, length, rank), seq_id as its pieces
IndexEntry(rep, rank, len) ==
    [seq_id |-> Append(rep, SeqNames[rank]), length |-> len, rank |-> rank]

\* grp_replicon(entry): "_".join(entry[0].split('_')[:-1])
grp_replicon(entry) == SubSeq(entry.seq_id, 1, Len(entry.seq_id) - 1)

\* parse_seq_id(seq_id)
parse_seq_id(seq_id) ==
    [replicon_name |-> SubSeq(seq_id, 1, Len(seq_id) - 1), seq_name |-> seq_id[Len(seq_id)]]

\* itertools.groupby(self._idx, grp_replicon): the runs of entries of one key
RECURSIVE groupby(_)
groupby(entries) ==
    IF entries = <<>> THEN <<>>
    ELSE LET k == grp_replicon(entries[1])
             n == CHOOSE m \in 1..Len(entries) :
                      /\ \A i \in 1..m : grp_replicon(entries[i]) = k
                      /\ m = Len(entries) \/ grp_replicon(entries[m + 1]) # k
         IN  <<SubSeq(entries, 1, n)>> \o groupby(SubSeq(entries, n + 1, Len(entries)))

\* (seq_name, seq_length)
gene_of_entry(e) == <<parse_seq_id(e.seq_id).seq_name, e.length>>

\* one turn of "for replicon in replicons"; rank is the value the variable holds
\* when the turn starts
fill_replicon(replicon, rank, topo, default_topology) ==
    LET first      == replicon[1]
        rest       == Tail(replicon)
        last       == replicon[Len(replicon)]
        name       == parse_seq_id(first.seq_id).replicon_name
        rank_after == IF rest = <<>> THEN rank ELSE last.rank
        genes      == <<gene_of_entry(first)>>
                      \o [i \in DOMAIN rest |-> gene_of_entry(rest[i])]
                      \o <<gene_of_entry(last)>>
    IN  [error |-> IF rank_after = NoRank THEN "UnboundLocalError" ELSE "",
         rank  |-> rank_after,
         name  |-> name,
         info  |-> [topology |-> IF name \in DOMAIN topo THEN topo[name]
                                 ELSE default_topology,
                    min |-> first.rank, max |-> rank_after, genes |-> genes]]

\* RepliconDB._fill_gembase_min_max: self._DB once every replicon is read, or the
\* exception that stops the loop
RECURSIVE fill_gembase_min_max(_, _, _, _, _)
fill_gembase_min_max(replicons, DB, rank, topo, default_topology) ==
    IF replicons = <<>> THEN [error |-> "", DB |-> DB]
    ELSE LET r == fill_replicon(replicons[1], rank, topo, default_topology)
         IN  IF r.error # "" THEN [error |-> r.error, DB |-> DB]
             ELSE fill_gembase_min_max(Tail(replicons), (r.name :> r.info) @@ DB,
                                       r.rank, topo, default_topology)

InitGembase ==
    /\ pc = "g_input"
    /\ topology = "linear"
    /\ min_genes_required = 1
    /\ min_mandatory_genes_required = 1
    /\ hits = <<>>
    /\ clusters = <<>>
    /\ true_clusters = <<>>
    /\ true_loners = <<>>
    /\ multi_system_hits = <<>>
    /\ combination = <<>>
    /\ result = NoResult
    /\ score = -1
    /\ error = ""
    /\ weights = hit_weights
    /\ system_id = 0
    /\ systems = <<>>
    /\ sel_systems = <<>>
    /\ selector = <<>>
    /\ best_systems = <<>>
    /\ _idx = <<>>

\* one more sequence in the index: of the replicon of the sequence before it, or the
\* first one of a replicon not met yet
GAddSeq ==
    /\ pc = "g_input"
    /\ Len(_idx) < MaxSeqs
    /\ \E rep \in RepliconNames, len \in SeqLengths :
          /\ \/ _idx # <<>> /\ rep = grp_replicon(_idx[Len(_idx)])
             \/ \A i \in DOMAIN _idx : grp_replicon(_idx[i]) # rep
          /\ _idx' = Append(_idx, IndexEntry(rep, Len(_idx) + 1, len))
    /\ UNCHANGED <<pc, topology, min_genes_required, min_mandatory_genes_required, hits,
                   clusters, true_clusters, true_loners, multi_system_hits, combination,
                   result, score, error, weights, system_id, systems, sel_systems, selector,
                   best_systems>>

\* RepliconDB(cfg) on a gembase: _fill_gembase_min_max(topo_dict, default_topology)
GFill ==
    /\ pc = "g_input"
    /\ \E circular \in SUBSET RepliconNames, default_topology \in Topologies :
          LET topo == [r \in circular |-> "circular"]
              db   == fill_gembase_min_max(groupby(_idx), <<>>, NoRank, topo, default_topology)
          IN  /\ topology' = default_topology
              /\ error' = db.error
              /\ result' = [kind |-> IF db.error = "" THEN "RepliconDB" ELSE db.error,
                            DB |-> db.DB]
              /\ pc' = IF db.error = "" THEN "g_filled" ELSE "g_failed"
    /\ UNCHANGED <<min_genes_required, min_mandatory_genes_required, hits,
                   clusters, true_clusters, true_loners, multi_system_hits, combination,
                   score, weights, system_id, systems, sel_systems, selector, best_systems,
                   _idx>>

NextGembase == GAddSeq \/ GFill

SpecGembase == InitGembase /\ [][NextGembase]_vars

\* the replicons of the index
RepliconsOfIndex == {grp_replicon(_idx[i]) : i \in DOMAIN _idx}

\* the entries of one replicon, in index order
EntriesOf(name) == SelectSeq(_idx, LAMBDA e : grp_replicon(e) = name)

\* C30: for a gembase index, RepliconDB records for every replicon, also one made of
\* a single sequence, min = the rank of its first sequence, max = the rank of its
\* last sequence, and a gene list that holds each sequence of the replicon exactly
\* once in index order.
C30_GembaseMinMax ==
    pc \in {"g_filled", "g_failed"} =>
        /\ error = ""
        /\ \A name \in RepliconsOfIndex :
              /\ name \in DOMAIN result.DB
              /\ LET es == EntriesOf(name)
                 IN  /\ result.DB[name].min = es[1].rank
                     /\ result.DB[name].max = es[Len(es)].rank
                     /\ result.DB[name].genes
                           = [i \in DOMAIN es |-> <<es[i].seq_id[Len(es[i].seq_id)], es[i].length>>]

====
